---- MODULE Spec2Model ----
(***************************************************************************)
(* A model of the DevTools (CDP) client of staticpwn/travian:              *)
(*   gather_utils.py      _cdp_call, click_element, _eval,                 *)
(*                        is_loader_visible, wait_until_loader_hidden,     *)
(*                        set_dates_and_run                                *)
(*   utility_functions.py navigate_to_site, get_outer_html_from_diag,      *)
(*                        pick_target, ensure_cdp_chrome_running           *)
(*                                                                         *)
(* The program is single-threaded.  Its state is the wall clock, the       *)
(* process-wide counter _cdp_msg_id, the one websocket the running         *)
(* operation holds, and the local variables and position of the operation  *)
(* and of the _cdp_call it is inside.  The browser is the environment: it  *)
(* answers commands that were sent to it, in any order and at any time,    *)
(* and interleaves notifications.                                          *)
(*                                                                         *)
(* Time is kept as the program looks at it: every deadline the program     *)
(* computes from time.time() is held as the time left until it, and Tick   *)
(* lets one unit of time pass.  "time.time() < deadline" is "time is left".*)
(* Reading time.time() twice may give two different values because Tick    *)
(* can happen between any two steps.                                       *)
(***************************************************************************)
EXTENDS Integers, Sequences, FiniteSets, TLC

(* ------------------------------ bounds ------------------------------- *)
MaxQueue == 1         \* frames buffered on the socket
MaxCalls == 16        \* _cdp_call invocations in one run of the model
MaxSamples == 4       \* loader samples in one wait_until_loader_hidden
MaxWaitTimeout == 2   \* timeout argument of wait_until_loader_hidden
MaxStable == 2        \* require_stable_samples argument
NoteCap == 2          \* the count of dropped notifications saturates here
MaxTargets == 2       \* targets the DevTools endpoint lists
MaxCoord == 10        \* largest coordinate of a content box
MaxEnsureTimeout == 2 \* timeout_secs of ensure_cdp_chrome_running
MaxProcs == 2         \* browser processes alive at one time
MaxFrames == 4        \* activations of login_to_account and ensure_navigate
MaxAttempts == 4      \* attempts of ensure_navigate is counted up to here

(* ------------------------- program constants ------------------------- *)
\* Durations are in clock units; durations that are below the resolution
\* of the clock count as one unit.
InitialMsgId == 1000     \* _cdp_msg_id = 1000
DefaultTimeout == 2      \* _cdp_call(..., timeout=6.0)
RecvFloor == 1           \* max(0.05, deadline - time.time())
DrainWindow == 1         \* while time.time() - t0 < 0.5
DrainRecvTimeout == 1    \* recv_with_timeout(0.2)
NavRecvTimeout == 2      \* recv_with_timeout(5.0)
NavFallbackTimeout == 1  \* recv_with_timeout(2.0)
HtmlSockTimeout == 2     \* create_connection(ws_url, timeout=5)

VARIABLES
    _cdp_msg_id,  \* the global counter of gather_utils.py
    wsOpen,       \* the operation's websocket is open
    inbox,        \* frames the browser sent that ws.recv() has not returned yet
    sent,         \* commands sent on this websocket: <<[id, method], ...>>
    answered,     \* how many commands of this websocket the browser is done with
    cpc,          \* position inside _cdp_call
    msg_id,       \* _cdp_call: msg_id
    method,       \* _cdp_call: method
    deadline,     \* _cdp_call: deadline - time.time(), 0 once it is reached
    recvBy,       \* time left until the pending ws.recv() gives up
    outcome,      \* how _cdp_call ended: result, error, timeout
    data,         \* _cdp_call: the frame it returned or failed on
    droppedIds,   \* ids of the replies this call read and dropped
    droppedNotes, \* notifications this call read and dropped (saturating)
    lastRead,     \* the last frame this call read
    pending,      \* ids of this websocket some _cdp_call is waiting for
    abandoned,    \* ids of this websocket whose call timed out
    allocs,       \* every id _cdp_call allocated, in order, process-wide
    op,           \* the operation the program is running
    opc,          \* position inside the operation
    step,         \* index of the command the operation is at
    opres,        \* what the operation returned, or the exception it raised
    ipc,          \* position inside is_loader_visible
    ilvRet,       \* what is_loader_visible returned, or the exception it raised
    val,          \* is_loader_visible: val, "novalue" for the default {}
    wdeadline,    \* wait_until_loader_hidden: deadline - time.time()
    stable,       \* wait_until_loader_hidden: stable
    reqStable,    \* wait_until_loader_hidden: require_stable_samples
    samples,      \* values is_loader_visible returned to this wait, in order
    sinceT0,      \* navigate_to_site: time.time() - t0 in the drain loop
    navUrl,       \* navigate_to_site: url is given
    navRetHtml,   \* navigate_to_site: return_html
    html,         \* navigate_to_site: result["html"]
    result,       \* navigate_to_site: ok, timed_out and error of result
    returned,     \* ids of this websocket whose _cdp_call returned a result
    targets,      \* pick_target: targets
    target_selector, \* pick_target: target_selector
    picked,       \* pick_target: position of the target it returned
    helped,       \* position of the target each helper chose for itself
    content,      \* bm["result"]["model"]["content"]
    point,        \* set_dates_and_run: <<x, y>>
    clickPoint,   \* click_element: <<x, y>>
    epc,          \* position inside ensure_cdp_chrome_running
    diag,         \* ensure_cdp_chrome_running: diag
    probed,       \* _devtools_ok returned True during this invocation
    edeadline,    \* ensure_cdp_chrome_running: deadline - time.time()
    kill_if_unreachable, \* ensure_cdp_chrome_running: kill_if_unreachable
    timeout_secs, \* ensure_cdp_chrome_running: timeout_secs
    procs,        \* pids of the live browsers that match the port or profile
    holder,       \* the process that listens on the port, NoHolder if none
    bpc,          \* position inside run_bot
    npc,          \* position inside ensure_navigate
    attempts,     \* ensure_navigate: attempts
    accounts,     \* constants.py: accounts[name]["current"], by name
    stack,        \* the activations of login_to_account and ensure_navigate
    lres,         \* how the last call from outside these two ended
    before        \* accounts as it was when that call was made

connVars == <<wsOpen, inbox, sent, answered, pending, abandoned, returned>>
callVars == <<cpc, msg_id, method, deadline, recvBy, outcome, data,
              droppedIds, droppedNotes, lastRead>>
waitVars == <<ipc, ilvRet, val, wdeadline, stable, reqStable, samples>>
navVars == <<sinceT0, navUrl, navRetHtml, html, result>>
opVars == <<op, opc, step, opres>>
pickVars == <<targets, target_selector, picked, helped>>
boxVars == <<content, point, clickPoint>>
ensureVars == <<epc, diag, probed, edeadline, kill_if_unreachable,
                timeout_secs, procs, holder>>
botVars == <<bpc, npc, attempts>>
\* The variables of the functions that use no websocket.
loginVars == <<accounts, stack, lres, before>>
otherVars == <<pickVars, boxVars, ensureVars, botVars, loginVars>>
\* The variables of the operations that use a websocket.
clientVars == <<_cdp_msg_id, allocs, connVars, callVars, opVars, waitVars,
                navVars>>
vars == <<clientVars, otherVars>>

(* ------------------------------ frames ------------------------------- *)
\* An inbound websocket frame.  kind "note" is a frame without an id, kind
\* "empty" is a frame ws.recv() returns as an empty string.
NoFrame == [kind |-> "none", id |-> 0, err |-> FALSE, val |-> "none"]
Note == [kind |-> "note", id |-> 0, err |-> FALSE, val |-> "none"]
Empty == [kind |-> "empty", id |-> 0, err |-> FALSE, val |-> "none"]
Reply(i, e, v) == [kind |-> "reply", id |-> i, err |-> e, val |-> v]

\* What the browser can put in the result of a command, by method.
ReplyValues(m) ==
    CASE m = "Runtime.evaluate" -> {"visible", "hidden", "novalue"}
      [] m = "DOM.querySelector" -> {"node", "nonode"}
      [] m \in {"outerHTML", "innerHTML"} -> {"html", "novalue"}
      [] m = "DOM.getBoxModel" -> {"boxA", "boxB"}
      [] OTHER -> {"ok"}

\* <<x, y>> not computed yet.
NoPoint == <<>>

\* The params of a command, as far as the model looks at them: the selector
\* of a query or the type of a pointer event, its point and its button.
NoParams == [arg |-> "none", point |-> NoPoint, button |-> "none"]

CmdWith(i, m, p) == [id |-> i, method |-> m, params |-> p]

Cmd(i, m) == CmdWith(i, m, NoParams)

Max(a, b) == IF a >= b THEN a ELSE b

SentIds == {sent[k].id : k \in 1..Len(sent)}

(* ---------------------------- environment ---------------------------- *)
TimeLeft(d) == IF d > 0 THEN d - 1 ELSE 0

\* One unit of time passes, seen by whatever the program is timing.
Tick ==
    /\ \/ deadline > 0
       \/ recvBy > 0
       \/ wdeadline > 0
       \/ op = "nav" /\ sinceT0 < DrainWindow
       \/ edeadline > 0
    /\ deadline' = TimeLeft(deadline)
    /\ edeadline' = TimeLeft(edeadline)
    /\ recvBy' = TimeLeft(recvBy)
    /\ wdeadline' = TimeLeft(wdeadline)
    /\ sinceT0' = IF op = "nav" /\ sinceT0 < DrainWindow
                  THEN sinceT0 + 1 ELSE sinceT0
    /\ UNCHANGED <<_cdp_msg_id, allocs, connVars, cpc, msg_id, method,
                   outcome, data, droppedIds, droppedNotes, lastRead, opVars,
                   ipc, ilvRet, val, stable, reqStable, samples, navUrl,
                   navRetHtml, html, result, pickVars, boxVars, epc, diag,
                   probed, kill_if_unreachable, timeout_secs, procs, holder,
                   botVars, loginVars>>

\* The browser answers the commands of a websocket in the order it got
\* them, each at most once: with a result or with an error.  The reply may
\* come at any time, also after the program has stopped waiting for it.
Remote_Reply ==
    /\ wsOpen
    /\ Len(inbox) < MaxQueue
    /\ answered < Len(sent)
    /\ answered' = answered + 1
    /\ LET c == sent[answered + 1] IN
       \/ inbox' = Append(inbox, Reply(c.id, TRUE, "none"))
       \/ \E v \in ReplyValues(c.method) :
            inbox' = Append(inbox, Reply(c.id, FALSE, v))
    /\ UNCHANGED <<_cdp_msg_id, allocs, wsOpen, sent, pending, abandoned,
                   returned, callVars, opVars, waitVars, navVars, otherVars>>

\* The browser never answers the command.
Remote_Skip ==
    /\ wsOpen
    /\ answered < Len(sent)
    /\ answered' = answered + 1
    /\ UNCHANGED <<_cdp_msg_id, allocs, wsOpen, inbox, sent, pending,
                   abandoned, returned, callVars, opVars, waitVars, navVars,
                   otherVars>>

\* The browser sends a notification, or a frame with no payload.
Remote_Notify ==
    /\ wsOpen
    /\ Len(inbox) < MaxQueue
    /\ \E f \in {Note, Empty} : inbox' = Append(inbox, f)
    /\ UNCHANGED <<_cdp_msg_id, allocs, wsOpen, sent, answered, pending,
                   abandoned, returned, callVars, opVars, waitVars, navVars,
                   otherVars>>

\* create_connection(ws_url), followed by the commands cmds.
OpenConnection(cmds) ==
    /\ wsOpen' = TRUE
    /\ inbox' = <<>>
    /\ sent' = cmds
    /\ answered' = 0
    /\ pending' = {}
    /\ abandoned' = {}
    /\ returned' = {}

\* ws.close()
CloseConnection ==
    /\ wsOpen' = FALSE
    /\ inbox' = <<>>
    /\ UNCHANGED <<sent, answered, pending, abandoned, returned>>

(* ----------------------------- _cdp_call ----------------------------- *)
\* The counter is not advanced.
NextMsgIdStuck(c) == c

NextMsgId(c) == c + 1

\* Any reply is taken for the reply to this call.
IdMatchesAnyReply(f, id) == f.kind = "reply"

\* A frame without an id is taken for the reply to this call.
IdMatchesOrNote(f, id) == f.kind = "note" \/ (f.kind = "reply" /\ f.id = id)

\* The reply to an earlier call is taken for the reply to this call.
IdMatchesEarlier(f, id) == f.kind = "reply" /\ f.id <= id

IdMatches(f, id) == f.kind = "reply" /\ f.id = id

\* The error field is not looked at.
HasErrorIgnored(f) == FALSE

HasError(f) == f.err

\* The receive waits for the floor only, whatever budget is left.
RecvTimeoutFloorOnly(left) == RecvFloor

\* max(0.05, deadline - time.time())
RecvTimeout(left) == Max(RecvFloor, left)

\* The loop goes on at the deadline itself.
LoopContinuesAtDeadline(left) == 0 <= left

\* The loop never looks at the deadline.
LoopContinuesForever(left) == TRUE

\* time.time() < deadline
LoopContinues(left) == 0 < left

CallPending == cpc \in {"check", "settimeout", "recv"}

\* Lines 54-59: allocate the id, send the command, fix the deadline.
CdpCallSend(m, p, timeout) ==
    /\ cpc = "idle"
    /\ wsOpen
    /\ _cdp_msg_id < InitialMsgId + MaxCalls
    /\ _cdp_msg_id' = NextMsgId(_cdp_msg_id)
    /\ msg_id' = _cdp_msg_id'
    /\ method' = m
    /\ allocs' = Append(allocs, msg_id')
    /\ sent' = Append(sent, CmdWith(msg_id', m, p))
    /\ pending' = pending \cup {msg_id'}
    /\ deadline' = timeout
    /\ cpc' = "check"
    /\ outcome' = "none"
    /\ data' = NoFrame
    /\ lastRead' = NoFrame
    /\ droppedIds' = {}
    /\ droppedNotes' = 0
    /\ UNCHANGED <<wsOpen, inbox, answered, abandoned, returned, recvBy>>

\* A call whose params the model does not look at.
CdpCallStart(m, timeout) == CdpCallSend(m, NoParams, timeout)

\* The caller takes the result or the exception of the finished call; the
\* locals of the call are gone.
CdpCallTaken ==
    /\ cpc = "done"
    /\ cpc' = "idle"
    /\ pending' = pending \ {msg_id}
    /\ returned' = IF outcome = "result" THEN returned \cup {msg_id}
                   ELSE returned
    /\ msg_id' = 0
    /\ method' = "none"
    /\ deadline' = 0
    /\ recvBy' = 0
    /\ outcome' = "none"
    /\ data' = NoFrame
    /\ lastRead' = NoFrame
    /\ droppedIds' = {}
    /\ droppedNotes' = 0

\* Every call counts as returned.
CallSucceededAlways(o) == TRUE

\* The call returned; it did not raise.
CallSucceeded(o) == o = "result"

\* Every node id counts as a node.
NodeFoundAlways(v) == TRUE

\* if not node_id: the query gives node id 0 for no node.
NodeFound(v) == v # "nonode"

\* The exception a failed call raises.
ExcOf(o) == IF o = "timeout" THEN "TimeoutError" ELSE "RuntimeError"

\* Line 60 and line 74.
Cdp_LoopCheck ==
    /\ cpc = "check"
    /\ IF LoopContinues(deadline)
       THEN /\ cpc' = "settimeout"
            /\ UNCHANGED <<outcome, abandoned>>
       ELSE /\ cpc' = "done"
            /\ outcome' = "timeout"
            /\ abandoned' = abandoned \cup {msg_id}
    /\ UNCHANGED <<_cdp_msg_id, allocs, wsOpen, inbox, sent, answered,
                   pending, returned, msg_id, method, deadline, recvBy, data,
                   droppedIds, droppedNotes, lastRead, opVars, waitVars,
                   navVars, otherVars>>

\* Line 61.
Cdp_SetTimeout ==
    /\ cpc = "settimeout"
    /\ recvBy' = RecvTimeout(deadline)
    /\ cpc' = "recv"
    /\ UNCHANGED <<_cdp_msg_id, allocs, connVars, msg_id, method, deadline,
                   outcome, data, droppedIds, droppedNotes, lastRead, opVars,
                   waitVars, navVars, otherVars>>

\* Lines 63, 66-73: ws.recv() returns a frame.
Cdp_RecvFrame ==
    /\ cpc = "recv"
    /\ inbox # <<>>
    /\ LET f == Head(inbox) IN
       /\ inbox' = Tail(inbox)
       /\ lastRead' = f
       /\ IF f.kind = "empty"
          THEN /\ cpc' = "check"
               /\ UNCHANGED <<outcome, data, droppedIds, droppedNotes>>
          ELSE IF IdMatches(f, msg_id)
          THEN /\ cpc' = "done"
               /\ outcome' = IF HasError(f) THEN "error" ELSE "result"
               /\ data' = f
               /\ UNCHANGED <<droppedIds, droppedNotes>>
          ELSE /\ cpc' = "check"
               /\ droppedIds' = IF f.kind = "reply"
                                THEN droppedIds \cup {f.id} ELSE droppedIds
               /\ droppedNotes' = IF f.kind = "note" /\ droppedNotes < NoteCap
                                  THEN droppedNotes + 1 ELSE droppedNotes
               /\ UNCHANGED <<outcome, data>>
    /\ recvBy' = 0
    /\ UNCHANGED <<_cdp_msg_id, allocs, wsOpen, sent, answered, pending,
                   abandoned, returned, msg_id, method, deadline, opVars,
                   waitVars, navVars, otherVars>>

\* Lines 64-65 and 74: ws.recv() raises WebSocketTimeoutException.
Cdp_RecvTimeout ==
    /\ cpc = "recv"
    /\ inbox = <<>>
    /\ recvBy = 0
    /\ cpc' = "done"
    /\ outcome' = "timeout"
    /\ abandoned' = abandoned \cup {msg_id}
    /\ UNCHANGED <<_cdp_msg_id, allocs, wsOpen, inbox, sent, answered,
                   pending, returned, msg_id, method, deadline, recvBy, data,
                   droppedIds, droppedNotes, lastRead, opVars, waitVars,
                   navVars, otherVars>>

(* ------------------- _eval and is_loader_visible -------------------- *)
\* _eval: Runtime.enable, Page.enable, then Runtime.evaluate of the loader
\* expression.
EvalMethods == <<"Runtime.enable", "Page.enable", "Runtime.evaluate">>

\* Lines 270-271: val is the value in the reply, {} when the reply has
\* none; bool(val.get("visible", False)).
LoaderVisible(v) == v = "visible"

\* is_loader_visible called on its own.
ILV_Start ==
    /\ op = "idle"
    /\ op' = "ilv"
    /\ opc' = "sample"
    /\ ipc' = "connect"
    /\ UNCHANGED <<_cdp_msg_id, allocs, connVars, callVars, step, opres,
                   ilvRet, val, wdeadline, stable, reqStable, samples, navVars,
                   otherVars>>

\* Line 256: create_connection succeeds.
ILV_Connect ==
    /\ ipc = "connect"
    /\ OpenConnection(<<>>)
    /\ ipc' = "eval"
    /\ step' = 1
    /\ UNCHANGED <<_cdp_msg_id, allocs, callVars, op, opc, opres, ilvRet, val,
                   wdeadline, stable, reqStable, samples, navVars, otherVars>>

\* Line 256: create_connection raises; no websocket exists.
ILV_ConnectFail ==
    /\ ipc = "connect"
    /\ ipc' = "done"
    /\ ilvRet' = "ConnectError"
    /\ UNCHANGED val
    /\ UNCHANGED <<_cdp_msg_id, allocs, connVars, callVars, opVars, wdeadline,
                   stable, reqStable, samples, navVars, otherVars>>

\* Lines 243-249: the next _cdp_call of _eval.
Eval_Call ==
    /\ ipc = "eval"
    /\ CdpCallStart(EvalMethods[step], DefaultTimeout)
    /\ UNCHANGED <<opVars, waitVars, navVars, otherVars>>

\* Lines 243-249 and 269-271: the call returned or raised.
Eval_Return ==
    /\ ipc = "eval"
    /\ CdpCallTaken
    /\ IF outcome = "result"
       THEN IF step < Len(EvalMethods)
            THEN /\ step' = step + 1
                 /\ UNCHANGED <<ipc, ilvRet, val>>
            ELSE /\ ipc' = "finally"
                 /\ val' = data.val
                 /\ ilvRet' = IF LoaderVisible(val') THEN "True" ELSE "False"
                 /\ UNCHANGED step
       ELSE /\ ipc' = "finally"
            /\ ilvRet' = ExcOf(outcome)
            /\ UNCHANGED val
            /\ UNCHANGED step
    /\ UNCHANGED <<_cdp_msg_id, allocs, wsOpen, inbox, sent, answered,
                   abandoned, op, opc, opres, wdeadline, stable, reqStable,
                   samples, navVars, otherVars>>

\* Lines 272-273: finally: ws.close().
ILV_Finally ==
    /\ ipc = "finally"
    /\ CloseConnection
    /\ ipc' = "done"
    /\ UNCHANGED <<_cdp_msg_id, allocs, callVars, opVars, ilvRet, val,
                   wdeadline, stable, reqStable, samples, navVars, otherVars>>

\* is_loader_visible called on its own returns or raises.
ILV_Return ==
    /\ op = "ilv"
    /\ opc = "sample"
    /\ ipc = "done"
    /\ ipc' = "idle"
    /\ opc' = "done"
    /\ opres' = ilvRet
    /\ val' = "none"
    /\ UNCHANGED <<_cdp_msg_id, allocs, connVars, callVars, op, step, ilvRet,
                   wdeadline, stable, reqStable, samples, navVars, otherVars>>

(* --------------------- wait_until_loader_hidden ---------------------- *)
StableReached(s, n) == s >= n

\* A visible sample does not reset the counter.
StableAfterNoReset(s, visible) == IF visible THEN s ELSE s + 1

StableAfter(s, visible) == IF visible THEN 0 ELSE s + 1

\* Lines 285-286.
Wait_Start ==
    /\ op = "idle"
    /\ \E t \in 1..MaxWaitTimeout, n \in 1..MaxStable :
         /\ wdeadline' = t
         /\ reqStable' = n
    /\ op' = "wait"
    /\ opc' = "loop"
    /\ stable' = 0
    /\ samples' = <<>>
    /\ UNCHANGED <<_cdp_msg_id, allocs, connVars, callVars, step, opres, ipc,
                   ilvRet, val, navVars, otherVars>>

\* Line 287, line 295, and the call of is_loader_visible on line 288.
Wait_LoopCheck ==
    /\ op = "wait"
    /\ opc = "loop"
    /\ IF 0 < wdeadline
       THEN /\ Len(samples) < MaxSamples
            /\ opc' = "sample"
            /\ ipc' = "connect"
            /\ UNCHANGED opres
       ELSE /\ opc' = "done"
            /\ opres' = "False"
            /\ UNCHANGED ipc
    /\ UNCHANGED <<_cdp_msg_id, allocs, connVars, callVars, op, step, ilvRet,
                   val, wdeadline, stable, reqStable, samples, navVars,
                   otherVars>>

\* Lines 288-293: is_loader_visible returned or raised.
Wait_Sample ==
    /\ op = "wait"
    /\ opc = "sample"
    /\ ipc = "done"
    /\ ipc' = "idle"
    /\ val' = "none"
    /\ IF ilvRet \notin {"True", "False"}
       THEN /\ opc' = "done"
            /\ opres' = ilvRet
            /\ UNCHANGED <<stable, samples>>
       ELSE /\ samples' = Append(samples, ilvRet = "True")
            /\ stable' = StableAfter(stable, ilvRet = "True")
            /\ IF ilvRet = "False" /\ StableReached(stable', reqStable)
               THEN opc' = "done" /\ opres' = "True"
               ELSE opc' = "sleep" /\ UNCHANGED opres
    /\ UNCHANGED <<_cdp_msg_id, allocs, connVars, callVars, op, step, ilvRet,
                   wdeadline, reqStable, navVars, otherVars>>

\* Line 294: time.sleep(poll_interval).  The poll interval is below the
\* resolution of the clock: the clock may or may not move while it sleeps.
Wait_Sleep ==
    /\ op = "wait"
    /\ opc = "sleep"
    /\ opc' = "loop"
    /\ UNCHANGED <<_cdp_msg_id, allocs, connVars, callVars, op, step, opres,
                   waitVars, navVars, otherVars>>

(* --------------------------- click_element --------------------------- *)
\* The commands of lines 97-111, in order.
ClickMethods == <<"Page.enable", "Runtime.enable", "DOM.enable",
                  "Debugger.enable", "Debugger.setSkipAllPauses",
                  "Debugger.setPauseOnExceptions",
                  "DOM.getDocument", "DOM.querySelector">>

\* Lines 100-105: the commands inside try ... except Exception: pass.
InDebuggerTry(k) == k \in 4..6

AfterDebuggerTry == 7

\* Lines 86-95: a page target is found and the websocket opens.
Click_Connect ==
    /\ op = "idle"
    /\ OpenConnection(<<>>)
    /\ op' = "click"
    /\ opc' = "calls"
    /\ step' = 1
    /\ UNCHANGED <<_cdp_msg_id, allocs, callVars, opres, waitVars, navVars,
                   otherVars>>

\* Lines 86-95: no page target, no websocket URL, or the connection fails.
Click_NoTarget ==
    /\ op = "idle"
    /\ op' = "click"
    /\ opc' = "done"
    /\ opres' = "RuntimeError"
    /\ UNCHANGED <<_cdp_msg_id, allocs, connVars, callVars, step, waitVars,
                   navVars, otherVars>>

\* Lines 97-111: the next _cdp_call.
Click_Call ==
    /\ op = "click"
    /\ opc = "calls"
    /\ CdpCallStart(ClickMethods[step], DefaultTimeout)
    /\ UNCHANGED <<opVars, waitVars, navVars, otherVars>>

\* Lines 97-117: the call returned or raised.  Line 117 passes timeout_s to
\* _cdp_call, which has no such parameter: the call raises TypeError before
\* anything is sent.
Click_Return ==
    /\ op = "click"
    /\ opc = "calls"
    /\ CdpCallTaken
    /\ IF outcome = "result"
       THEN IF step < Len(ClickMethods)
            THEN /\ step' = step + 1
                 /\ UNCHANGED <<opc, opres>>
            ELSE /\ opc' = "finally"
                 /\ opres' = IF ~NodeFound(data.val)
                             THEN "ValueError" ELSE "TypeError"
                 /\ UNCHANGED step
       ELSE IF InDebuggerTry(step)
            THEN /\ step' = AfterDebuggerTry
                 /\ UNCHANGED <<opc, opres>>
            ELSE /\ opc' = "finally"
                 /\ opres' = ExcOf(outcome)
                 /\ UNCHANGED step
    /\ UNCHANGED <<_cdp_msg_id, allocs, wsOpen, inbox, sent, answered,
                   abandoned, op, waitVars, navVars, otherVars>>

\* Lines 130-134: finally: ws.close().
Click_Finally ==
    /\ op = "click"
    /\ opc = "finally"
    /\ CloseConnection
    /\ opc' = "done"
    /\ UNCHANGED <<_cdp_msg_id, allocs, callVars, op, step, opres, waitVars,
                   navVars, otherVars>>

(* ------------------------- navigate_to_site -------------------------- *)
\* Lines 340-348: result as the function starts.
NewResult == [ok |-> FALSE, timed_out |-> FALSE, error |-> "None"]

\* The handler reports the exception and success as well.
CaughtAndOk(r) == [r EXCEPT !.error = "exception", !.ok = TRUE]

\* Lines 452-454: the outer handler puts str(exc) in the result.
Caught(r) == [r EXCEPT !.error = "exception"]

\* Line 449: result["ok"] = not result["timed_out"].
Finished(r) == [r EXCEPT !.ok = ~r.timed_out]

\* Lines 387-397: the commands sent right after the websocket opens.
NavEnableCmds(skip) ==
    <<Cmd(1, "Page.enable"), Cmd(2, "Runtime.enable"), Cmd(3, "Network.enable")>>
    \o (IF skip
        THEN <<Cmd(4, "Debugger.enable"), Cmd(5, "Debugger.setSkipAllPauses"),
               Cmd(6, "Debugger.setPauseOnExceptions")>>
        ELSE <<>>)

NavigateId == 10
OuterHtmlId == 30
InnerHtmlId == 31

\* Lines 428 and 436: resp and resp.get("id") == idn.  recv_with_timeout
\* gives None for an empty frame.
NavMatches(f, idn) == f.kind = "reply" /\ f.id = idn

\* resp["result"]["result"].get("value")
HtmlValue(v) == IF v = "html" THEN "html" ELSE "none"

\* Lines 350-400: a target is picked, the websocket opens, the domains are
\* enabled; t0 of line 403.
Nav_Connect ==
    /\ op = "idle"
    /\ \E u \in BOOLEAN, skip \in BOOLEAN, h \in BOOLEAN :
         /\ OpenConnection(NavEnableCmds(skip))
         /\ navUrl' = u
         /\ navRetHtml' = h
    /\ op' = "nav"
    /\ opc' = "drain"
    /\ sinceT0' = 0
    /\ html' = "none"
    /\ result' = NewResult
    /\ UNCHANGED <<_cdp_msg_id, allocs, callVars, step, opres, waitVars,
                   otherVars>>

\* Lines 350-364 and 452-454: pick_target or create_connection raises; the
\* exception is caught and reported in the result.
Nav_Fail ==
    /\ op = "idle"
    /\ op' = "nav"
    /\ opc' = "done"
    /\ opres' = "error"
    /\ result' = Caught(NewResult)
    /\ UNCHANGED <<_cdp_msg_id, allocs, connVars, callVars, step, waitVars,
                   sinceT0, navUrl, navRetHtml, html, otherVars>>

\* Lines 404-406: the drain loop reads the clock and starts a receive.
Nav_DrainCheck ==
    /\ op = "nav"
    /\ opc = "drain"
    /\ IF sinceT0 < DrainWindow
       THEN /\ opc' = "drainrecv"
            /\ recvBy' = DrainRecvTimeout
       ELSE /\ opc' = "navigate"
            /\ UNCHANGED recvBy
    /\ UNCHANGED <<_cdp_msg_id, allocs, connVars, cpc, msg_id, method,
                   deadline, outcome, data, droppedIds, droppedNotes,
                   lastRead, op, step, opres, waitVars, navVars, otherVars>>

\* Line 406: a frame arrives and is ignored.
Nav_DrainRecv ==
    /\ op = "nav"
    /\ opc = "drainrecv"
    /\ inbox # <<>>
    /\ inbox' = Tail(inbox)
    /\ recvBy' = 0
    /\ opc' = "drain"
    /\ UNCHANGED <<_cdp_msg_id, allocs, wsOpen, sent, answered, pending,
                   abandoned, returned, cpc, msg_id, method, deadline,
                   outcome, data, droppedIds, droppedNotes, lastRead, op,
                   step, opres, waitVars, navVars, otherVars>>

\* Line 406: the receive times out.
Nav_DrainTimeout ==
    /\ op = "nav"
    /\ opc = "drainrecv"
    /\ inbox = <<>>
    /\ recvBy = 0
    /\ opc' = "drain"
    /\ UNCHANGED <<_cdp_msg_id, allocs, connVars, callVars, op, step, opres,
                   waitVars, navVars, otherVars>>

\* Lines 412-420.
Nav_Navigate ==
    /\ op = "nav"
    /\ opc = "navigate"
    /\ sent' = IF navUrl THEN Append(sent, Cmd(NavigateId, "Page.navigate"))
               ELSE sent
    /\ opc' = "fetch"
    /\ UNCHANGED <<_cdp_msg_id, allocs, wsOpen, inbox, answered, pending,
                   abandoned, returned, callVars, op, step, opres, waitVars,
                   navVars, otherVars>>

\* Lines 424-427: send command 30 and start the one receive for it.
Nav_Fetch ==
    /\ op = "nav"
    /\ opc = "fetch"
    /\ IF navRetHtml
       THEN /\ sent' = Append(sent, Cmd(OuterHtmlId, "outerHTML"))
            /\ recvBy' = NavRecvTimeout
            /\ opc' = "recv30"
       ELSE /\ opc' = "close"
            /\ UNCHANGED <<sent, recvBy>>
    /\ UNCHANGED <<_cdp_msg_id, allocs, wsOpen, inbox, answered, pending,
                   abandoned, returned, cpc, msg_id, method, deadline,
                   outcome, data, droppedIds, droppedNotes, lastRead, op,
                   step, opres, waitVars, navVars, otherVars>>

\* Lines 432-435: the fallback: send command 31 and start the one receive
\* for it.
NavFallback ==
    /\ sent' = Append(sent, Cmd(InnerHtmlId, "innerHTML"))
    /\ recvBy' = NavFallbackTimeout
    /\ opc' = "recv31"
    /\ UNCHANGED html

\* Lines 427-435 and 438: the receive for command 30 returns a frame.  An
\* error reply has no "result": the KeyError is swallowed on line 438.
Nav_Recv30 ==
    /\ op = "nav"
    /\ opc = "recv30"
    /\ inbox # <<>>
    /\ inbox' = Tail(inbox)
    /\ LET f == Head(inbox) IN
       IF NavMatches(f, OuterHtmlId)
       THEN /\ html' = IF f.err THEN html ELSE HtmlValue(f.val)
            /\ opc' = "close"
            /\ recvBy' = 0
            /\ UNCHANGED sent
       ELSE NavFallback
    /\ UNCHANGED <<_cdp_msg_id, allocs, wsOpen, answered, pending, abandoned,
                   returned, cpc, msg_id, method, deadline, outcome, data,
                   droppedIds, droppedNotes, lastRead, op, step, opres,
                   waitVars, sinceT0, navUrl, navRetHtml, result,
                   otherVars>>

\* Lines 427-435: the receive for command 30 times out.
Nav_Recv30Timeout ==
    /\ op = "nav"
    /\ opc = "recv30"
    /\ inbox = <<>>
    /\ recvBy = 0
    /\ NavFallback
    /\ UNCHANGED <<_cdp_msg_id, allocs, wsOpen, inbox, answered, pending,
                   abandoned, returned, cpc, msg_id, method, deadline,
                   outcome, data, droppedIds, droppedNotes, lastRead, op,
                   step, opres, waitVars, sinceT0, navUrl, navRetHtml,
                   result, otherVars>>

\* Lines 435-438: the receive for command 31 returns a frame.
Nav_Recv31 ==
    /\ op = "nav"
    /\ opc = "recv31"
    /\ inbox # <<>>
    /\ inbox' = Tail(inbox)
    /\ LET f == Head(inbox) IN
       html' = IF NavMatches(f, InnerHtmlId) /\ ~f.err
               THEN HtmlValue(f.val) ELSE html
    /\ recvBy' = 0
    /\ opc' = "close"
    /\ UNCHANGED <<_cdp_msg_id, allocs, wsOpen, sent, answered, pending,
                   abandoned, returned, cpc, msg_id, method, deadline,
                   outcome, data, droppedIds, droppedNotes, lastRead, op,
                   step, opres, waitVars, sinceT0, navUrl, navRetHtml,
                   result, otherVars>>

\* Lines 435-436: the receive for command 31 times out.
Nav_Recv31Timeout ==
    /\ op = "nav"
    /\ opc = "recv31"
    /\ inbox = <<>>
    /\ recvBy = 0
    /\ opc' = "close"
    /\ UNCHANGED <<_cdp_msg_id, allocs, connVars, callVars, op, step, opres,
                   waitVars, navVars, otherVars>>

\* Lines 443-450: close the websocket; ok = not timed_out.
Nav_Close ==
    /\ op = "nav"
    /\ opc = "close"
    /\ CloseConnection
    /\ opc' = "done"
    /\ opres' = "ok"
    /\ result' = Finished(result)
    /\ UNCHANGED <<_cdp_msg_id, allocs, callVars, op, step, waitVars,
                   sinceT0, navUrl, navRetHtml, html, otherVars>>

(* --------------------- get_outer_html_from_diag ---------------------- *)
\* Lines 462-493: a page target is found, the websocket opens, command 1 is
\* sent.  The socket keeps the timeout given to create_connection.
Html_Connect ==
    /\ op = "idle"
    /\ OpenConnection(<<Cmd(1, "outerHTML")>>)
    /\ recvBy' = HtmlSockTimeout
    /\ op' = "html"
    /\ opc' = "recv"
    /\ UNCHANGED <<_cdp_msg_id, allocs, cpc, msg_id, method, deadline,
                   outcome, data, droppedIds, droppedNotes, lastRead, step,
                   opres, waitVars, navVars, otherVars>>

\* Lines 462-482: the endpoint is missing or unreachable, there is no page
\* target or no websocket URL, or the connection fails.
Html_NoTarget ==
    /\ op = "idle"
    /\ op' = "html"
    /\ opc' = "done"
    /\ opres' = "RuntimeError"
    /\ UNCHANGED <<_cdp_msg_id, allocs, connVars, callVars, step, waitVars,
                   navVars, otherVars>>

\* Lines 498-502: res_json["result"]["result"]["value"], or the frame as it
\* came when that fails.
HtmlResult(f) ==
    IF f.kind = "reply" /\ ~f.err /\ f.val = "html" THEN "html" ELSE "rawframe"

\* Lines 494-502: the one ws.recv() returns a frame.
Html_Recv ==
    /\ op = "html"
    /\ opc = "recv"
    /\ inbox # <<>>
    /\ opres' = HtmlResult(Head(inbox))
    /\ CloseConnection
    /\ recvBy' = 0
    /\ opc' = "done"
    /\ UNCHANGED <<_cdp_msg_id, allocs, cpc, msg_id, method, deadline,
                   outcome, data, droppedIds, droppedNotes, lastRead, op,
                   step, waitVars, navVars, otherVars>>

\* Line 494: ws.recv() raises WebSocketTimeoutException; line 495 is not
\* reached.
Html_RecvTimeout ==
    /\ op = "html"
    /\ opc = "recv"
    /\ inbox = <<>>
    /\ recvBy = 0
    /\ opc' = "done"
    /\ opres' = "WebSocketTimeoutException"
    /\ UNCHANGED <<_cdp_msg_id, allocs, connVars, callVars, op, step,
                   waitVars, navVars, otherVars>>

(* ------------------------- the click point --------------------------- *)
\* n / 4, exactly: <<whole part, quarters>>.
Quarter(n) == <<n \div 4, n % 4>>

\* click_element, lines 120-121.  content[k] of the source is c[k + 1].
ClickPoint(c) ==
    <<Quarter(c[1] + c[3] + c[5] + c[7]), Quarter(c[2] + c[4] + c[6] + c[8])>>

\* The slice is the whole list.
SliceAll(c, start) == c

RECURSIVE Slice(_, _)
\* content[start::2]
Slice(c, start) ==
    IF start >= Len(c) THEN <<>>
    ELSE <<c[start + 1]>> \o Slice(c, start + 2)

RECURSIVE Sum(_)
\* sum(...)
Sum(q) == IF q = <<>> THEN 0 ELSE Head(q) + Sum(Tail(q))

\* set_dates_and_run, lines 386-387.
DatesPoint(c) == <<Quarter(Sum(Slice(c, 0))), Quarter(Sum(Slice(c, 1)))>>

\* The content boxes of 8 numbers.
Coords == {0, 1, MaxCoord}
ContentBoxes == [1..8 -> Coords]

\* The content boxes the browser reports, by the name the model gives them.
BoxContent(v) ==
    IF v = "boxA" THEN <<0, 0, 10, 0, 10, 10, 0, 10>>
    ELSE <<1, 0, MaxCoord, 1, MaxCoord, 10, 0, 10>>

\* Lines 119-121 of click_element applied to a content box.
Click_Centroid ==
    /\ content # <<>>
    /\ clickPoint = NoPoint
    /\ clickPoint' = ClickPoint(content)
    /\ UNCHANGED <<clientVars, loginVars, pickVars, content, point, ensureVars,
                   botVars>>

\* Lines 385-387 of set_dates_and_run applied to a content box.
Dates_Centroid ==
    /\ op = "idle"
    /\ content # <<>>
    /\ point = NoPoint
    /\ point' = DatesPoint(content)
    /\ UNCHANGED <<clientVars, loginVars, pickVars, content, clickPoint,
                   ensureVars, botVars>>

(* ------------------------- set_dates_and_run ------------------------- *)
\* The commands of lines 351-397, in order, and the selector or the event
\* type each is sent with.
DatesMethods ==
    <<"Page.enable", "Runtime.enable", "DOM.enable", "DOM.getDocument",
      "DOM.querySelector", "DOM.resolveNode", "Runtime.callFunctionOn",
      "DOM.querySelector", "DOM.resolveNode", "Runtime.callFunctionOn",
      "DOM.querySelector", "DOM.scrollIntoViewIfNeeded", "DOM.getBoxModel",
      "Input.dispatchMouseEvent", "Input.dispatchMouseEvent",
      "Input.dispatchMouseEvent">>

\* The end date is set before the start date.
DatesArgsEndFirst ==
    <<"none", "none", "none", "none",
      "#txtToDate", "#txtToDate", "#txtToDate",
      "#txtFromDate", "#txtFromDate", "#txtFromDate",
      "#imgLoad", "#imgLoad", "#imgLoad",
      "mouseMoved", "mousePressed", "mouseReleased">>

\* The press comes before the move.
DatesArgsPressFirst ==
    <<"none", "none", "none", "none",
      "#txtFromDate", "#txtFromDate", "#txtFromDate",
      "#txtToDate", "#txtToDate", "#txtToDate",
      "#imgLoad", "#imgLoad", "#imgLoad",
      "mousePressed", "mouseMoved", "mouseReleased">>

DatesArgs ==
    <<"none", "none", "none", "none",
      "#txtFromDate", "#txtFromDate", "#txtFromDate",
      "#txtToDate", "#txtToDate", "#txtToDate",
      "#imgLoad", "#imgLoad", "#imgLoad",
      "mouseMoved", "mousePressed", "mouseReleased">>

GetBoxModelStep == 13

\* Lines 389-396: the params of a pointer event; of any other command, what
\* it is sent for.
DatesParams(k, pt) ==
    IF DatesMethods[k] = "Input.dispatchMouseEvent"
    THEN [arg |-> DatesArgs[k], point |-> pt, button |-> "left"]
    ELSE [arg |-> DatesArgs[k], point |-> NoPoint, button |-> "none"]

\* Lines 338-349: a page target is found, or ws_url is given, and the
\* websocket opens.
Dates_Connect ==
    /\ op = "idle"
    /\ OpenConnection(<<>>)
    /\ op' = "dates"
    /\ opc' = "calls"
    /\ step' = 1
    /\ UNCHANGED <<_cdp_msg_id, allocs, callVars, opres, waitVars, navVars,
                   otherVars>>

\* Lines 338-349: no page target, no websocket URL, or the connection
\* fails.
Dates_NoTarget ==
    /\ op = "idle"
    /\ op' = "dates"
    /\ opc' = "done"
    /\ opres' = "RuntimeError"
    /\ UNCHANGED <<_cdp_msg_id, allocs, connVars, callVars, step, waitVars,
                   navVars, otherVars>>

\* Lines 351-397: the next _cdp_call.
Dates_Call ==
    /\ op = "dates"
    /\ opc = "calls"
    /\ CdpCallSend(DatesMethods[step], DatesParams(step, point),
                   DefaultTimeout)
    /\ UNCHANGED <<opVars, waitVars, navVars, otherVars>>

\* Lines 351-400: the call returned or raised.
Dates_Return ==
    /\ op = "dates"
    /\ opc = "calls"
    /\ CdpCallTaken
    /\ IF ~CallSucceeded(outcome)
       THEN /\ opc' = "finally"
            /\ opres' = ExcOf(outcome)
            /\ UNCHANGED <<step, content, point>>
       ELSE IF method = "DOM.querySelector" /\ ~NodeFound(data.val)
       THEN /\ opc' = "finally"
            /\ opres' = "ValueError"
            /\ UNCHANGED <<step, content, point>>
       ELSE IF step = Len(DatesMethods)
       THEN /\ opc' = "finally"
            /\ opres' = "True"
            /\ UNCHANGED <<step, content, point>>
       ELSE /\ step' = step + 1
            /\ content' = IF step = GetBoxModelStep
                          THEN BoxContent(data.val) ELSE content
            /\ point' = IF step = GetBoxModelStep
                        THEN DatesPoint(content') ELSE point
            /\ UNCHANGED <<opc, opres>>
    /\ UNCHANGED <<_cdp_msg_id, allocs, wsOpen, inbox, sent, answered,
                   abandoned, op, waitVars, navVars, pickVars, clickPoint,
                   ensureVars, botVars, loginVars>>

\* Lines 402-406: finally: ws.close().
Dates_Finally ==
    /\ op = "dates"
    /\ opc = "finally"
    /\ CloseConnection
    /\ opc' = "done"
    /\ UNCHANGED <<_cdp_msg_id, allocs, callVars, op, step, opres, waitVars,
                   navVars, otherVars>>

(* ---------------------------- pick_target ---------------------------- *)
\* A string is the sequence of its characters.  The scheme of a URL, up to
\* and including "://", counts as one character.
Letters == {"a", "A", "b", "B"}

\* str.lower(), one character at a time.
LowerChar(c) ==
    CASE c = "A" -> "a"
      [] c = "B" -> "b"
      [] OTHER -> c

\* The string is compared as it was given.
LowerSkipped(str) == str

Lower(str) == [k \in 1..Len(str) |-> LowerChar(str[k])]

\* needle in hay
Contains(hay, needle) ==
    \E k \in 0..(Len(hay) - Len(needle)) :
        SubSeq(hay, k + 1, k + Len(needle)) = needle

\* Every URL counts as an http(s) URL.
StartsWithAnything(url) == TRUE

\* url.startswith(("http://", "https://"))
StartsWithHttp(url) == url # <<>> /\ url[1] \in {"http://", "https://"}

\* target_selector is None, or the string text.
NoSelector == [given |-> FALSE, text |-> <<>>]
Selector(text) == [given |-> TRUE, text |-> text]

\* Line 296: if target_selector.
Truthy(sel) == sel.given /\ sel.text # <<>>

Target(ty, u, ti) == [type |-> ty, url |-> u, title |-> ti]

\* pick_target has not returned; pick_target raised LookupError.  Any other
\* value is the position in targets of the target it returned.
NotPicked == -1
LookupError == 0

\* Line 295: the positions, in list order, of the targets of type "page"
\* with an http(s) URL.
Pages(ts) ==
    SelectSeq([k \in 1..Len(ts) |-> k],
              LAMBDA k : ts[k].type = "page" /\ StartsWithHttp(ts[k].url))

\* Lines 299 and 303: needle in url.lower() or needle in title.lower().
Matches(t, needle) ==
    Contains(Lower(t.url), needle) \/ Contains(Lower(t.title), needle)

\* Lines 298-300 and 302-304: the first of the positions ps whose target
\* matches, LookupError if there is none.
FirstMatch(ps, ts, needle) ==
    LET hits == SelectSeq(ps, LAMBDA k : Matches(ts[k], needle))
    IN IF hits = <<>> THEN LookupError ELSE hits[1]

\* Lines 293-312.
pick_target(ts, sel) ==
    LET pages == Pages(ts) IN
    IF Truthy(sel)
    THEN LET needle == Lower(sel.text)
             inPages == FirstMatch(pages, ts, needle)
         IN IF inPages # LookupError THEN inPages
            ELSE FirstMatch([k \in 1..Len(ts) |-> k], ts, needle)
    ELSE IF pages # <<>> THEN pages[1]
    ELSE IF ts # <<>> THEN 1
    ELSE LookupError

\* What the DevTools endpoint may list, and the selectors a caller may give.
TargetUrls == {<<>>, <<"http://", "a">>, <<"https://", "B">>,
               <<"chrome://", "a">>, <<"chrome://", "b">>}
TargetTitles == {<<>>, <<"A">>}
TargetTypes == {"page", "other"}
TargetLists ==
    UNION {[1..n -> {Target(ty, u, ti) : ty \in TargetTypes,
                                          u \in TargetUrls,
                                          ti \in TargetTitles}] :
           n \in 0..MaxTargets}
Selectors == {NoSelector} \cup {Selector(<<>>)}
             \cup {Selector(<<c>>) : c \in Letters}

\* pick_target(devtools_http, target_selector) returns or raises.
Pick_Call ==
    /\ picked = NotPicked
    /\ picked' = pick_target(targets, target_selector)
    /\ UNCHANGED <<clientVars, loginVars, targets, target_selector, helped,
                   boxVars, ensureVars, botVars>>

(* ----------------- the target the helpers connect to ----------------- *)
\* get_outer_html_from_diag, click_element and set_dates_and_run (called
\* without ws_url) each list the targets and choose one themselves.
Helpers == {"html", "click", "dates"}

\* The helper found no target of type "page" and raised RuntimeError.
NoPageTarget == 0

\* No helper has chosen yet.
NoneHelped == [h \in Helpers |-> NotPicked]

\* [t for t in targets if t.get("type") == "page"], as positions.
PageTargets(ts) ==
    SelectSeq([k \in 1..Len(ts) |-> k], LAMBDA k : ts[k].type = "page")

\* page_targets[0], and next((t for t in targets if ...), None): the first
\* target of type "page", whatever its URL.
FirstPage(ts) ==
    IF PageTargets(ts) = <<>> THEN NoPageTarget ELSE PageTargets(ts)[1]

\* Helper h lists the targets and chooses one, or raises.
Helper_Pick(h) ==
    /\ helped[h] = NotPicked
    /\ helped' = [helped EXCEPT ![h] = FirstPage(targets)]
    /\ UNCHANGED <<clientVars, loginVars, targets, target_selector, picked,
                   boxVars, ensureVars, botVars>>

\* utility_functions.py, lines 468-476.
Html_Pick == Helper_Pick("html")

\* gather_utils.py, lines 86-90.
Click_Pick == Helper_Pick("click")

\* gather_utils.py, lines 338-343.
Dates_Pick == Helper_Pick("dates")

(* --------------------- ensure_cdp_chrome_running --------------------- *)
\* The diag starts with launched set.
NewDiagLaunched ==
    [ok |-> FALSE, pid |-> 0, launched |-> TRUE, killed |-> <<>>,
     error |-> "None"]

\* Lines 172-179.  pid 0 is None.
NewDiag == [ok |-> FALSE, pid |-> 0, launched |-> FALSE, killed |-> <<>>,
            error |-> "None"]

\* An error message is written and ok is set as well.
WithErrorAndOk(d, e) == [d EXCEPT !.error = e, !.ok = TRUE]

\* diag["error"] = ...
WithError(d, e) == [d EXCEPT !.error = e]

\* diag["ok"] = True
WithOk(d) == [d EXCEPT !.ok = TRUE]

\* The pids a browser process may have.
Pids == 1..MaxProcs

\* Nothing listens on the port.
NoHolder == 0

\* A process that listens on the port and is no browser of this port or
\* profile.
OtherProcess == -1

\* sorted(set(hits))
RECURSIVE SortedPids(_)
SortedPids(S) ==
    IF S = {} THEN <<>>
    ELSE LET m == CHOOSE x \in S : \A y \in S : x <= y
         IN <<m>> \o SortedPids(S \ {m})

\* What _find_cdp_chrome_pids returns: the pids, sorted, of the browser
\* processes that match the port or the profile.
CdpPids == SortedPids(procs)

\* _port_in_use: something accepts a connection on the port.
PortInUse == holder # NoHolder

\* What _devtools_ok may return: True only if something listens on the
\* port, and then only if it answers the probe in time.
ProbeResults == IF PortInUse THEN BOOLEAN ELSE {FALSE}

\* Line 197: if cdp_pids and kill_if_unreachable.
MayKill(pids, k) == pids # <<>> /\ k

\* proc.pid of the browser that line 236 launches: a pid no live process
\* has.
FreshPid == CHOOSE p \in Pids \ procs : \A q \in Pids \ procs : p <= q

\* pids[0] if pids else None
FirstPid(pids) == IF pids # <<>> THEN pids[1] ELSE 0

\* The processes in S end; the port one of them listened on is free again.
Killed(S) ==
    /\ procs' = procs \ S
    /\ holder' = IF holder \in S THEN NoHolder ELSE holder

\* A browser that was launched starts to listen on the port.
Env_Listen ==
    /\ holder = NoHolder
    /\ \E p \in procs : holder' = p
    /\ UNCHANGED <<clientVars, loginVars, pickVars, boxVars, epc, diag, probed,
                   edeadline, kill_if_unreachable, timeout_secs, procs,
                   botVars>>

\* Another program starts to listen on the port.
Env_Other ==
    /\ holder = NoHolder
    /\ holder' = OtherProcess
    /\ UNCHANGED <<clientVars, loginVars, pickVars, boxVars, epc, diag, probed,
                   edeadline, kill_if_unreachable, timeout_secs, procs,
                   botVars>>

\* Lines 152-184: the call, with its arguments; the profile directory
\* exists or is made.
EnsureCall(k, t) ==
    /\ epc = "idle"
    /\ kill_if_unreachable' = k
    /\ timeout_secs' = t
    /\ diag' = NewDiag
    /\ probed' = FALSE
    /\ edeadline' = 0
    /\ epc' = "probe"

\* ensure_cdp_chrome_running is called with any arguments.
Ensure_Start ==
    /\ \E k \in BOOLEAN, t \in 0..MaxEnsureTimeout : EnsureCall(k, t)
    /\ UNCHANGED <<clientVars, loginVars, pickVars, boxVars, procs, holder,
                   botVars>>

\* Lines 187-192: the first liveness probe.
Ensure_Probe ==
    /\ epc = "probe"
    /\ \E alive \in ProbeResults :
         IF alive
         THEN /\ diag' = [WithOk(diag) EXCEPT !.pid = FirstPid(CdpPids)]
              /\ probed' = TRUE
              /\ epc' = "done"
         ELSE /\ epc' = "port"
              /\ UNCHANGED <<diag, probed>>
    /\ UNCHANGED <<clientVars, loginVars, pickVars, boxVars, edeadline,
                   kill_if_unreachable, timeout_secs, procs, holder,
                   botVars>>

\* Lines 195-205: the port is looked at, and the processes that match the
\* port or the profile; _kill_pids ends them.
Ensure_Port ==
    /\ epc = "port"
    /\ LET cdp_pids == CdpPids IN
       IF ~PortInUse
       THEN /\ epc' = "launch"
            /\ UNCHANGED <<diag, procs, holder>>
       ELSE IF MayKill(cdp_pids, kill_if_unreachable)
       THEN /\ Killed(procs)
            /\ diag' = [diag EXCEPT !.killed = cdp_pids]
            /\ epc' = "launch"
       ELSE IF cdp_pids # <<>>
       THEN /\ diag' = WithError(diag, "PortBusyUnreachable")
            /\ epc' = "done"
            /\ UNCHANGED <<procs, holder>>
       ELSE /\ diag' = WithError(diag, "PortNonCdp")
            /\ epc' = "done"
            /\ UNCHANGED <<procs, holder>>
    /\ UNCHANGED <<clientVars, loginVars, pickVars, boxVars, probed, edeadline,
                   kill_if_unreachable, timeout_secs, botVars>>

\* Lines 208-253: the executable is looked for and launched; the deadline
\* of line 253.
Ensure_Launch ==
    /\ epc = "launch"
    /\ \E found \in BOOLEAN, started \in BOOLEAN :
         IF ~found
         THEN /\ diag' = WithError(diag, "ChromeNotFound")
              /\ epc' = "done"
              /\ UNCHANGED <<edeadline, procs>>
         ELSE IF ~started \/ procs = Pids
         THEN /\ diag' = WithError(diag, "LaunchFailed")
              /\ epc' = "done"
              /\ UNCHANGED <<edeadline, procs>>
         ELSE /\ procs' = procs \cup {FreshPid}
              /\ diag' = [diag EXCEPT !.launched = TRUE, !.pid = FreshPid]
              /\ edeadline' = timeout_secs
              /\ epc' = "wait"
    /\ UNCHANGED <<clientVars, loginVars, pickVars, boxVars, probed,
                   kill_if_unreachable, timeout_secs, holder, botVars>>

\* Lines 256 and 265-267: the loop reads the clock.
Ensure_WaitCheck ==
    /\ epc = "wait"
    /\ IF 0 < edeadline
       THEN /\ epc' = "waitprobe"
            /\ UNCHANGED diag
       ELSE /\ diag' = WithError(diag, "EndpointDown")
            /\ epc' = "done"
    /\ UNCHANGED <<clientVars, loginVars, pickVars, boxVars, probed, edeadline,
                   kill_if_unreachable, timeout_secs, procs, holder,
                   botVars>>

\* Lines 257-260 and 269-270: a liveness probe of the loop.
Ensure_WaitProbe ==
    /\ epc = "waitprobe"
    /\ \E alive \in ProbeResults :
         IF alive
         THEN /\ diag' = WithOk(diag)
              /\ probed' = TRUE
              /\ epc' = "done"
         ELSE /\ epc' = "sleep"
              /\ UNCHANGED <<diag, probed>>
    /\ UNCHANGED <<clientVars, loginVars, pickVars, boxVars, edeadline,
                   kill_if_unreachable, timeout_secs, procs, holder,
                   botVars>>

\* Line 263: time.sleep(0.2).
Ensure_Sleep ==
    /\ epc = "sleep"
    /\ epc' = "wait"
    /\ UNCHANGED <<clientVars, loginVars, pickVars, boxVars, diag, probed,
                   edeadline, kill_if_unreachable, timeout_secs, procs, holder,
                   botVars>>

\* The caller has the diag.
EnsureReturned ==
    /\ epc = "done"
    /\ epc' = "idle"
    /\ edeadline' = 0
    /\ UNCHANGED <<diag, probed, kill_if_unreachable, timeout_secs, procs,
                   holder>>

\* A caller other than run_bot has the diag.
Ensure_Return ==
    /\ EnsureReturned
    /\ UNCHANGED <<clientVars, loginVars, pickVars, boxVars, botVars>>

(* -------------------------- ensure_navigate -------------------------- *)
\* if attempts == 3
LoginAttempt == 3

\* attempts += 1.  The code compares attempts with 3 only, so the values
\* above 3 are not told apart: the count stops at MaxAttempts.
Bump(a) == IF a < MaxAttempts THEN a + 1 ELSE a

\* Line 524: while url... not in pending_address_bar.get_value().
GoesOn(shown, a) == ~shown

\* What Application(backend="uia").connect(process=pid) and the look for
\* the window may do: they succeed only if the process is alive.
ConnectResults(pid) == IF pid \in procs THEN BOOLEAN ELSE {FALSE}

\* Lines 510-523: ensure_navigate(diag, "send_troops"), the first call in
\* the try block of run_bot, connects to the window of the browser and
\* finds the address bar, or raises.
EN_Enter ==
    /\ bpc = "ops"
    /\ npc = "idle"
    /\ \E connected \in ConnectResults(diag.pid) :
         IF connected
         THEN /\ npc' = "test"
              /\ attempts' = 0
              /\ UNCHANGED bpc
         ELSE /\ bpc' = "handler"
              /\ UNCHANGED <<npc, attempts>>
    /\ UNCHANGED <<clientVars, loginVars, pickVars, boxVars, ensureVars>>

\* Line 524: the loop condition reads the address bar.
EN_Test ==
    /\ bpc = "ops"
    /\ npc = "test"
    /\ \E shown \in BOOLEAN :
         npc' = IF GoesOn(shown, attempts) THEN "navigate" ELSE "done"
    /\ UNCHANGED <<clientVars, loginVars, pickVars, boxVars, ensureVars, bpc,
                   attempts>>

\* Lines 526-536: navigate_to_site returns its result, which is not looked
\* at; sleep; attempts += 1.
EN_Navigate ==
    /\ bpc = "ops"
    /\ npc = "navigate"
    /\ attempts' = Bump(attempts)
    /\ npc' = IF attempts' = LoginAttempt THEN "login" ELSE "test"
    /\ UNCHANGED <<clientVars, loginVars, pickVars, boxVars, ensureVars, bpc>>

\* Lines 536-539: login_to_account(diag, current_account) returns, or
\* raises.
EN_Login ==
    /\ bpc = "ops"
    /\ npc = "login"
    /\ \E raised \in BOOLEAN :
         IF raised
         THEN /\ npc' = "idle"
              /\ bpc' = "handler"
         ELSE /\ npc' = "test"
              /\ UNCHANGED bpc
    /\ UNCHANGED <<clientVars, loginVars, pickVars, boxVars, ensureVars,
                   attempts>>

(* ------------------------------ run_bot ------------------------------ *)
\* kill_cdp_chrome(pid): the process with that pid ends.
kill_cdp_chrome(pid) == Killed({pid})

\* The pid read from diag_pid.txt; 0 if the file cannot be read.
PreviousPids == {0} \cup Pids

\* run_bot.py lines 18-37: the browser of the previous run is killed, then
\* ensure_cdp_chrome_running is called.
Bot_Start ==
    /\ bpc = "off"
    /\ \E previous_pid \in PreviousPids : kill_cdp_chrome(previous_pid)
    /\ EnsureCall(TRUE, MaxEnsureTimeout)
    /\ bpc' = "boot"
    /\ UNCHANGED <<clientVars, loginVars, pickVars, boxVars, npc, attempts>>

\* run_bot.py lines 30-43: diag is assigned and its pid written to the
\* file; the main loop begins.
Bot_Booted ==
    /\ bpc = "boot"
    /\ EnsureReturned
    /\ bpc' = "top"
    /\ UNCHANGED <<clientVars, loginVars, pickVars, boxVars, npc, attempts>>

\* run_bot.py lines 45-53: the user of the period is looked up; it is the
\* current account or another one.  With no user the loop sleeps and comes
\* back here.
Bot_Period ==
    /\ bpc = "top"
    /\ \E other \in BOOLEAN : bpc' = IF other THEN "login" ELSE "ops"
    /\ UNCHANGED <<clientVars, loginVars, pickVars, boxVars, ensureVars, npc,
                   attempts>>

\* run_bot.py line 55 is outside the try block: an exception of
\* login_to_account leaves the loop.
LoginRaised == "left"

\* run_bot.py line 55: login_to_account(diag, period_user) returns, or
\* raises; it raises if the browser of diag is gone.
Bot_Login ==
    /\ bpc = "login"
    /\ \E done \in ConnectResults(diag.pid) :
         bpc' = IF done THEN "ops" ELSE LoginRaised
    /\ UNCHANGED <<clientVars, loginVars, pickVars, boxVars, ensureVars, npc,
                   attempts>>

\* run_bot.py lines 66-112: the operations after ensure_navigate return, or
\* one of them raises.
Bot_Ops ==
    /\ bpc = "ops"
    /\ npc = "done"
    /\ \E raised \in BOOLEAN : bpc' = IF raised THEN "handler" ELSE "top"
    /\ npc' = "idle"
    /\ attempts' = 0
    /\ UNCHANGED <<clientVars, loginVars, pickVars, boxVars, ensureVars>>

\* run_bot.py lines 117-128: the browser of diag is killed and
\* ensure_cdp_chrome_running is called.
KillThenRelaunch(t) ==
    /\ kill_cdp_chrome(diag.pid)
    /\ EnsureCall(TRUE, t)

\* run_bot.py lines 113-128: the handler of the try block.
Bot_Handler ==
    /\ bpc = "handler"
    /\ KillThenRelaunch(MaxEnsureTimeout)
    /\ bpc' = "relaunch"
    /\ UNCHANGED <<clientVars, loginVars, pickVars, boxVars, npc, attempts>>

\* run_bot.py lines 121-130: diag is assigned; the next cycle begins.
Bot_Relaunched ==
    /\ bpc = "relaunch"
    /\ EnsureReturned
    /\ bpc' = "top"
    /\ UNCHANGED <<clientVars, loginVars, pickVars, boxVars, npc, attempts>>

\* run_bot.py lines 117-128, taken by themselves: the browser of the last
\* diag is killed and ensure_cdp_chrome_running is called.
Ensure_KillRelaunch ==
    /\ \E t \in 0..MaxEnsureTimeout : KillThenRelaunch(t)
    /\ UNCHANGED <<clientVars, loginVars, pickVars, boxVars, botVars>>

(* ------------------ login_to_account and its callees ----------------- *)
\* constants.py lines 39-55: the accounts, in the order of the dict.
AccountOrder == <<"NobelSword", "daggerman", "el_hammar">>
AccountNames == {AccountOrder[k] : k \in 1..Len(AccountOrder)}

\* constants.py lines 43, 48, 53: the current flags as the module sets them.
InitialAccounts == [a \in AccountNames |-> a = "NobelSword"]

\* What a caller may pass as account_name: an account, or a name that is
\* no key of accounts.
AccountArgs == AccountNames \cup {"nobody"}

\* Lines 504-507: the first account, in the order of the dict, whose
\* current flag is set; None if the loop ends without one.
get_current_account(acc) ==
    LET set == SelectSeq(AccountOrder, LAMBDA a : acc[a])
    IN IF set = <<>> THEN "None" ELSE set[1]

\* The flag of the new account is left as it was.
SetCurrentSkipped(acc, name) == acc

\* Line 610: accounts[account_name]["current"] = True.
SetCurrent(acc, name) == [acc EXCEPT ![name] = TRUE]

\* Line 609: accounts[current_account]["current"] = False.
ClearCurrent(acc, name) == [acc EXCEPT ![name] = FALSE]

\* An activation of login_to_account (arg is account_name) or of
\* ensure_navigate (arg is target_url_label), at position pc.
Frame(f, a) == [fn |-> f, arg |-> a, pc |-> "enter", attempts |-> 0]

Top == stack[Len(stack)]

Running(f, p) == stack # <<>> /\ Top.fn = f /\ Top.pc = p

\* The activation on top moves to position p.
Goto(p) == [stack EXCEPT ![Len(stack)].pc = p]

\* The number of activations of login_to_account in progress.
LoginDepth ==
    Len(SelectSeq(stack, LAMBDA fr : fr.fn = "login_to_account"))

\* None of the functions catches anything: an exception ends every
\* activation and reaches the caller outside.
Raise ==
    /\ stack' = <<>>
    /\ lres' = "raised"

\* The activation on top returns to its caller.
Return ==
    /\ stack' = SubSeq(stack, 1, Len(stack) - 1)
    /\ lres' = IF Len(stack) = 1 THEN "returned" ELSE lres

\* The activation on top moves to position p and calls f(diag, a).
Call(p, f, a) ==
    /\ Len(stack) < MaxFrames
    /\ stack' = Append(Goto(p), Frame(f, a))
    /\ UNCHANGED lres

\* run_bot.py line 55, or any other caller: login_to_account(diag, name).
Call_Login ==
    /\ stack = <<>>
    /\ \E name \in AccountArgs : stack' = <<Frame("login_to_account", name)>>
    /\ lres' = "none"
    /\ before' = accounts
    /\ UNCHANGED <<clientVars, pickVars, boxVars, ensureVars, botVars,
                   accounts>>

\* run_bot.py line 66: ensure_navigate(diag, "send_troops").
Call_EnsureNavigate ==
    /\ stack = <<>>
    /\ stack' = <<Frame("ensure_navigate", "send_troops")>>
    /\ lres' = "none"
    /\ before' = accounts
    /\ UNCHANGED <<clientVars, pickVars, boxVars, ensureVars, botVars,
                   accounts>>

\* Lines 599-602: accounts[account_name] raises KeyError for a name that is
\* no key.
Login_Enter ==
    /\ Running("login_to_account", "enter")
    /\ IF Top.arg \in AccountNames
       THEN stack' = Goto("login") /\ UNCHANGED lres
       ELSE Raise
    /\ UNCHANGED <<clientVars, pickVars, boxVars, ensureVars, botVars,
                   accounts, before>>

\* Lines 604 and 591: login calls ensure_navigate(diag, "login").
Login_NavLogin ==
    /\ Running("login_to_account", "login")
    /\ Call("form", "ensure_navigate", "login")
    /\ UNCHANGED <<clientVars, pickVars, boxVars, ensureVars, botVars,
                   accounts, before>>

\* Lines 593-595: fill_login_form and enter_world return, or one of them
\* raises (the window is gone, the page has no two input fields).
Login_Form ==
    /\ Running("login_to_account", "form")
    /\ \E raised \in BOOLEAN :
         IF raised THEN Raise
         ELSE stack' = Goto("village") /\ UNCHANGED lres
    /\ UNCHANGED <<clientVars, pickVars, boxVars, ensureVars, botVars,
                   accounts, before>>

\* Line 606: ensure_navigate(diag, "terana_village").
Login_NavVillage ==
    /\ Running("login_to_account", "village")
    /\ Call("clear", "ensure_navigate", "terana_village")
    /\ UNCHANGED <<clientVars, pickVars, boxVars, ensureVars, botVars,
                   accounts, before>>

\* Lines 608-609: the flag of the current account is cleared;
\* accounts[None] raises KeyError.
Login_Clear ==
    /\ Running("login_to_account", "clear")
    /\ LET current_account == get_current_account(accounts) IN
         IF current_account \in AccountNames
         THEN /\ accounts' = ClearCurrent(accounts, current_account)
              /\ stack' = Goto("set")
              /\ UNCHANGED lres
         ELSE /\ Raise
              /\ UNCHANGED accounts
    /\ UNCHANGED <<clientVars, pickVars, boxVars, ensureVars, botVars,
                   before>>

\* Lines 610-612: the flag of account_name is set and login_to_account
\* returns.
Login_Set ==
    /\ Running("login_to_account", "set")
    /\ accounts' = SetCurrent(accounts, Top.arg)
    /\ Return
    /\ UNCHANGED <<clientVars, pickVars, boxVars, ensureVars, botVars,
                   before>>

\* Lines 510-523: the window of the browser and its address bar are found,
\* or Application.connect or the lookup raises.
Nested_Connect ==
    /\ Running("ensure_navigate", "enter")
    /\ \E connected \in BOOLEAN :
         IF connected THEN stack' = Goto("test") /\ UNCHANGED lres
         ELSE Raise
    /\ UNCHANGED <<clientVars, pickVars, boxVars, ensureVars, botVars,
                   accounts, before>>

\* Lines 524 and 541: the loop condition reads the address bar; when it
\* shows the URL ensure_navigate returns.
Nested_Test ==
    /\ Running("ensure_navigate", "test")
    /\ \E shown \in BOOLEAN :
         IF GoesOn(shown, Top.attempts)
         THEN stack' = Goto("navigate") /\ UNCHANGED lres
         ELSE Return
    /\ UNCHANGED <<clientVars, pickVars, boxVars, ensureVars, botVars,
                   accounts, before>>

\* Lines 526-536: navigate_to_site returns its result, which is not looked
\* at; sleep; attempts += 1; if attempts == 3.
Nested_Navigate ==
    /\ Running("ensure_navigate", "navigate")
    /\ LET a == Bump(Top.attempts) IN
         stack' = [stack EXCEPT
                     ![Len(stack)].attempts = a,
                     ![Len(stack)].pc = IF a = LoginAttempt THEN "relogin"
                                        ELSE "test"]
    /\ UNCHANGED <<clientVars, pickVars, boxVars, ensureVars, botVars,
                   accounts, lres, before>>

\* Lines 537-539: login_to_account(diag, get_current_account()), whoever
\* called this ensure_navigate.
Nested_Relogin ==
    /\ Running("ensure_navigate", "relogin")
    /\ Call("test", "login_to_account", get_current_account(accounts))
    /\ UNCHANGED <<clientVars, pickVars, boxVars, ensureVars, botVars,
                   accounts, before>>

(* ------------------------------ program ------------------------------ *)
\* The operation has returned to its caller, which may start another one.
Op_Finish ==
    /\ op # "idle"
    /\ opc = "done"
    /\ op' = "idle"
    /\ opc' = "idle"
    /\ step' = 0
    /\ opres' = "none"
    /\ ipc' = "idle"
    /\ ilvRet' = "none"
    /\ val' = "none"
    /\ wdeadline' = 0
    /\ stable' = 0
    /\ reqStable' = 0
    /\ samples' = <<>>
    /\ sinceT0' = 0
    /\ navUrl' = FALSE
    /\ navRetHtml' = FALSE
    /\ html' = "none"
    /\ result' = NewResult
    /\ recvBy' = 0
    /\ UNCHANGED <<_cdp_msg_id, allocs, connVars, cpc, msg_id, method,
                   deadline, outcome, data, droppedIds, droppedNotes,
                   lastRead, otherVars>>

\* Module load of gather_utils.py; no operation is running.
ClientInit ==
    /\ _cdp_msg_id = InitialMsgId
    /\ allocs = <<>>
    /\ wsOpen = FALSE
    /\ inbox = <<>>
    /\ sent = <<>>
    /\ answered = 0
    /\ pending = {}
    /\ abandoned = {}
    /\ cpc = "idle"
    /\ msg_id = 0
    /\ method = "none"
    /\ deadline = 0
    /\ recvBy = 0
    /\ outcome = "none"
    /\ data = NoFrame
    /\ lastRead = NoFrame
    /\ droppedIds = {}
    /\ droppedNotes = 0
    /\ op = "idle"
    /\ opc = "idle"
    /\ step = 0
    /\ opres = "none"
    /\ ipc = "idle"
    /\ ilvRet = "none"
    /\ val = "none"
    /\ wdeadline = 0
    /\ stable = 0
    /\ reqStable = 0
    /\ samples = <<>>
    /\ sinceT0 = 0
    /\ navUrl = FALSE
    /\ navRetHtml = FALSE
    /\ html = "none"
    /\ result = NewResult
    /\ returned = {}

\* pick_target is not running.
PickIdle ==
    /\ targets = <<>>
    /\ target_selector = NoSelector
    /\ picked = NotPicked
    /\ helped = NoneHelped

\* No content box has been read.
BoxIdle ==
    /\ content = <<>>
    /\ point = NoPoint
    /\ clickPoint = NoPoint

\* ensure_cdp_chrome_running is not running.
EnsureIdle ==
    /\ epc = "idle"
    /\ diag = NewDiag
    /\ probed = FALSE
    /\ edeadline = 0
    /\ kill_if_unreachable = FALSE
    /\ timeout_secs = 0
    /\ procs = {}
    /\ holder = NoHolder

\* run_bot has not been started.
BotIdle ==
    /\ bpc = "off"
    /\ npc = "idle"
    /\ attempts = 0

\* No login_to_account and no ensure_navigate is in progress; the flags are
\* those of constants.py.
LoginIdle ==
    /\ accounts = InitialAccounts
    /\ stack = <<>>
    /\ lres = "none"
    /\ before = InitialAccounts

Init ==
    ClientInit /\ PickIdle /\ BoxIdle /\ EnsureIdle /\ BotIdle /\ LoginIdle

\* The program runs its operations one after another, any number of times.
Next ==
    \/ Tick
    \/ Remote_Reply
    \/ Remote_Skip
    \/ Remote_Notify
    \/ Cdp_LoopCheck
    \/ Cdp_SetTimeout
    \/ Cdp_RecvFrame
    \/ Cdp_RecvTimeout
    \/ ILV_Start
    \/ ILV_Connect
    \/ ILV_ConnectFail
    \/ Eval_Call
    \/ Eval_Return
    \/ ILV_Finally
    \/ ILV_Return
    \/ Click_Connect
    \/ Click_NoTarget
    \/ Click_Call
    \/ Click_Return
    \/ Click_Finally
    \/ Nav_Connect
    \/ Nav_Fail
    \/ Nav_DrainCheck
    \/ Nav_DrainRecv
    \/ Nav_DrainTimeout
    \/ Nav_Navigate
    \/ Nav_Fetch
    \/ Nav_Recv30
    \/ Nav_Recv30Timeout
    \/ Nav_Recv31
    \/ Nav_Recv31Timeout
    \/ Nav_Close
    \/ Html_Connect
    \/ Html_NoTarget
    \/ Html_Recv
    \/ Html_RecvTimeout
    \/ Op_Finish

Spec == Init /\ [][Next]_vars

\* One execution of wait_until_loader_hidden.
NextWait ==
    \/ Tick
    \/ Remote_Reply
    \/ Remote_Skip
    \/ Remote_Notify
    \/ Cdp_LoopCheck
    \/ Cdp_SetTimeout
    \/ Cdp_RecvFrame
    \/ Cdp_RecvTimeout
    \/ ILV_Connect
    \/ ILV_ConnectFail
    \/ Eval_Call
    \/ Eval_Return
    \/ ILV_Finally
    \/ Wait_Start
    \/ Wait_LoopCheck
    \/ Wait_Sample
    \/ Wait_Sleep

SpecWait == Init /\ [][NextWait]_vars

\* is_loader_visible called again and again.  Time advances, and the
\* program, which is not blocked in a receive that has neither a frame nor
\* a timeout to return with, takes its next step.
NextLive ==
    \/ Tick
    \/ Remote_Reply
    \/ Remote_Skip
    \/ Remote_Notify
    \/ Cdp_LoopCheck
    \/ Cdp_SetTimeout
    \/ Cdp_RecvFrame
    \/ Cdp_RecvTimeout
    \/ ILV_Start
    \/ ILV_Connect
    \/ ILV_ConnectFail
    \/ Eval_Call
    \/ Eval_Return
    \/ ILV_Finally
    \/ ILV_Return
    \/ Op_Finish

CdpCallStep ==
    Cdp_LoopCheck \/ Cdp_SetTimeout \/ Cdp_RecvFrame \/ Cdp_RecvTimeout

LiveSpec ==
    Init /\ [][NextLive]_vars /\ WF_vars(Tick) /\ WF_vars(CdpCallStep)

\* login_to_account and ensure_navigate called again and again.
NextLogin ==
    \/ Call_Login
    \/ Call_EnsureNavigate
    \/ Login_Enter
    \/ Login_NavLogin
    \/ Login_Form
    \/ Login_NavVillage
    \/ Login_Clear
    \/ Login_Set
    \/ Nested_Connect
    \/ Nested_Test
    \/ Nested_Navigate
    \/ Nested_Relogin

SpecLogin == Init /\ [][NextLogin]_vars

\* pick_target applied to any list of targets and any selector.
InitPick ==
    /\ ClientInit
    /\ BoxIdle
    /\ EnsureIdle
    /\ BotIdle
    /\ LoginIdle
    /\ targets \in TargetLists
    /\ target_selector \in Selectors
    /\ picked = NotPicked
    /\ helped = NoneHelped

NextPick == Pick_Call \/ Html_Pick \/ Click_Pick \/ Dates_Pick

SpecPick == InitPick /\ [][NextPick]_vars

\* ensure_cdp_chrome_running called again and again.
NextEnsure ==
    \/ Tick
    \/ Env_Listen
    \/ Env_Other
    \/ Ensure_Start
    \/ Ensure_KillRelaunch
    \/ Ensure_Probe
    \/ Ensure_Port
    \/ Ensure_Launch
    \/ Ensure_WaitCheck
    \/ Ensure_WaitProbe
    \/ Ensure_Sleep
    \/ Ensure_Return

SpecEnsure == Init /\ [][NextEnsure]_vars

\* A step of run_bot or of a function it has called.
BotStep ==
    \/ Ensure_Probe
    \/ Ensure_Port
    \/ Ensure_Launch
    \/ Ensure_WaitCheck
    \/ Ensure_WaitProbe
    \/ Ensure_Sleep
    \/ Bot_Start
    \/ Bot_Booted
    \/ Bot_Period
    \/ Bot_Login
    \/ EN_Enter
    \/ EN_Test
    \/ EN_Navigate
    \/ EN_Login
    \/ Bot_Ops
    \/ Bot_Handler
    \/ Bot_Relaunched

\* run_bot from its start.
NextBot ==
    \/ Tick
    \/ Env_Listen
    \/ Env_Other
    \/ Ensure_Probe
    \/ Ensure_Port
    \/ Ensure_Launch
    \/ Ensure_WaitCheck
    \/ Ensure_WaitProbe
    \/ Ensure_Sleep
    \/ Bot_Start
    \/ Bot_Booted
    \/ Bot_Period
    \/ Bot_Login
    \/ EN_Enter
    \/ EN_Test
    \/ EN_Navigate
    \/ EN_Login
    \/ Bot_Ops
    \/ Bot_Handler
    \/ Bot_Relaunched

SpecBot == Init /\ [][NextBot]_vars

\* Time advances, and run_bot, which is one thread, takes its next step.
FairBot ==
    Init /\ [][NextBot]_vars /\ WF_vars(Tick) /\ WF_vars(BotStep)

\* The two centroid computations applied to any content box of 8 numbers.
InitCentroid ==
    /\ ClientInit
    /\ PickIdle
    /\ EnsureIdle
    /\ BotIdle
    /\ LoginIdle
    /\ content \in ContentBoxes
    /\ point = NoPoint
    /\ clickPoint = NoPoint

NextCentroid ==
    \/ Click_Centroid
    \/ Dates_Centroid

SpecCentroid == InitCentroid /\ [][NextCentroid]_vars

\* One execution of click_element or of set_dates_and_run.
NextInput ==
    \/ Tick
    \/ Remote_Reply
    \/ Remote_Skip
    \/ Remote_Notify
    \/ Cdp_LoopCheck
    \/ Cdp_SetTimeout
    \/ Cdp_RecvFrame
    \/ Cdp_RecvTimeout
    \/ Click_Connect
    \/ Click_NoTarget
    \/ Click_Call
    \/ Click_Return
    \/ Click_Finally
    \/ Dates_Connect
    \/ Dates_NoTarget
    \/ Dates_Call
    \/ Dates_Return
    \/ Dates_Finally

SpecInput == Init /\ [][NextInput]_vars

(* ---------------------------- properties ----------------------------- *)
CallReturned == cpc = "done" /\ outcome = "result"

\* The step in which the pending _cdp_call reads the frame at the head of
\* the socket's buffer.
CallReads == cpc = "recv" /\ inbox # <<>> /\ cpc' # cpc

NoDuplicates(q) == \A i, j \in 1..Len(q) : i # j => q[i] # q[j]

\* C1: whatever _cdp_call returns is a reply frame whose id is the id that
\* was allocated for this very call (the last id allocated), never the id of
\* an earlier or later call.
C1_ReturnsOwnReply ==
    CallReturned =>
        /\ data.kind = "reply"
        /\ data.id = msg_id
        /\ msg_id = allocs[Len(allocs)]
        /\ \A k \in 1..(Len(allocs) - 1) : data.id # allocs[k]

\* C1 witness: a call other than the first on its websocket returned its
\* own reply after it had read the reply to another call.
C1_Witness == CallReturned /\ Len(sent) >= 2 /\ droppedIds # {}

\* C2: a notification read by a pending _cdp_call is discarded: the call
\* neither returns nor fails on it and goes on waiting for the same id; what
\* a call returns is the matching reply, never a notification or an error.
C2_NotificationsDiscarded ==
    /\ [][(CallReads /\ Head(inbox).kind = "note") =>
            /\ cpc' = "check"
            /\ outcome' = "none"
            /\ data' = NoFrame
            /\ msg_id' = msg_id
            /\ pending' = pending
            /\ inbox' = Tail(inbox)]_vars
    /\ [](CallReturned /\ droppedNotes > 0 =>
            data.kind = "reply" /\ data.id = msg_id /\ ~data.err)

\* C2 witness: a call returned its reply after discarding two notifications.
C2_Witness == CallReturned /\ droppedNotes >= 2 /\ IdMatches(data, msg_id)

\* C3: a reply whose id is not the pending call's id is dropped and leaves
\* the call as it was, still waiting for its own id until the same deadline;
\* the matching reply read afterwards ends the call; at most one call is
\* pending on a websocket.
C3_StaleReplyDropped ==
    /\ [][(CallReads /\ Head(inbox).kind = "reply" /\ Head(inbox).id # msg_id) =>
            /\ cpc' = "check"
            /\ outcome' = "none"
            /\ data' = NoFrame
            /\ msg_id' = msg_id
            /\ deadline' = deadline
            /\ pending' = pending]_vars
    /\ [][(CallReads /\ droppedIds # {} /\ Head(inbox) = Reply(msg_id, FALSE, Head(inbox).val)) =>
            (cpc' = "done" /\ outcome' = "result" /\ data' = Head(inbox))]_vars
    /\ [](Cardinality(pending) <= 1)
    /\ [](CallPending => pending = {msg_id})

\* C3 witness: a call returned its own reply after dropping a reply with
\* another id.
C3_Witness ==
    /\ CallReturned
    /\ droppedIds # {}
    /\ msg_id \notin droppedIds
    /\ data.id = msg_id

\* C4: a call that finds its deadline reached raises TimeoutError; a call
\* times out only without having read its reply; the id of a timed-out call
\* is never the id of a later call; a reply to it is never what a later call
\* returns or fails on.
C4_TimeoutAbandonsId ==
    /\ [][(cpc = "check" /\ deadline = 0 /\ cpc' # cpc) =>
            (cpc' = "done" /\ outcome' = "timeout")]_vars
    /\ [](cpc = "done" /\ outcome = "timeout" =>
            msg_id \in abandoned /\ ~IdMatches(lastRead, msg_id))
    /\ [](CallPending => msg_id \notin abandoned)
    /\ [](NoDuplicates(allocs))
    /\ [](cpc = "done" /\ outcome \in {"result", "error"} =>
            data.id \notin abandoned)

\* C4 witness: a call returned its own reply after it dropped the late reply
\* to an earlier call of the same websocket that had timed out.
C4_Witness == CallReturned /\ (droppedIds \cap abandoned) # {}

\* C5: the commands sent on one websocket all carry different ids, and the
\* ids _cdp_call allocates strictly increase over the whole run.
C5_UniqueIds ==
    /\ NoDuplicates([k \in 1..Len(sent) |-> sent[k].id])
    /\ \A k \in 1..(Len(allocs) - 1) : allocs[k] < allocs[k + 1]

\* C5 witness: navigate_to_site has sent all its commands, the fallback
\* included, on a websocket opened after _cdp_call allocated ids on earlier
\* websockets.
C5_Witness ==
    /\ op = "nav"
    /\ InnerHtmlId \in SentIds
    /\ Len(allocs) >= 4

\* C6: reading the frame with the call's id ends the call at once: with the
\* remote error for that method if the frame has an error field, with the
\* frame as the result if not; once the call has ended nothing more is read
\* from the socket on its behalf.
C6_MatchingFrameEndsCall ==
    /\ [][(CallReads /\ Head(inbox).kind = "reply" /\ Head(inbox).id = msg_id) =>
            /\ cpc' = "done"
            /\ data' = Head(inbox)
            /\ outcome' = (IF Head(inbox).err THEN "error" ELSE "result")
            /\ method' = method
            /\ inbox' = Tail(inbox)]_vars
    /\ [][cpc = "done" => Len(inbox') >= Len(inbox)]_vars
    /\ [](cpc = "done" /\ outcome = "error" => data.err /\ data.id = msg_id)
    /\ [](CallReturned => ~data.err)

\* C6 witness: a call failed with the remote error of its matching frame.
C6_Witness == cpc = "done" /\ outcome = "error" /\ data.err /\ data.id = msg_id

\* The id of the command whose reply the program is waiting for (0: none).
AwaitedId ==
    IF CallPending THEN msg_id
    ELSE IF op = "nav" /\ opc = "recv30" THEN OuterHtmlId
    ELSE IF op = "nav" /\ opc = "recv31" THEN InnerHtmlId
    ELSE IF op = "html" /\ opc = "recv" THEN 1
    ELSE 0

\* The step in which the waiting operation reads the frame at the head of
\* the socket's buffer.
WaiterReads == AwaitedId # 0 /\ inbox # <<>> /\ Len(inbox') < Len(inbox)

\* C7: an operation that waits for the reply to a command and reads a
\* notification, or a reply with another id, goes on waiting for the same
\* reply: it neither gives up nor takes that frame for its result.
C7_KeepsReceiving ==
    [][(WaiterReads /\ Head(inbox).kind \in {"note", "reply"}
                    /\ Head(inbox).id # AwaitedId) =>
          AwaitedId' = AwaitedId]_vars

\* C8: as long as time advances, a pending _cdp_call returns to its caller:
\* with a result, a remote error or a timeout, whatever the browser sends or
\* does not send.
C8_CallTerminates ==
    CallPending ~> (cpc = "done" /\ outcome \in {"result", "error", "timeout"})

\* C8 witness: a call timed out while the browser kept sending it
\* notifications.
C8_Witness ==
    /\ cpc = "done"
    /\ outcome = "timeout"
    /\ droppedNotes >= 2

RECURSIVE TrailingHidden(_)
\* The number of not-visible samples at the end of q.
TrailingHidden(q) ==
    IF q = <<>> \/ q[Len(q)] THEN 0
    ELSE 1 + TrailingHidden(SubSeq(q, 1, Len(q) - 1))

\* C9: wait_until_loader_hidden reports success only when the last
\* require_stable_samples samples were all not-visible; its counter is the
\* number of not-visible samples since the last visible one; with threshold 2
\* and samples true, true, false it has not reported success.
C9_StableSuccess ==
    op = "wait" =>
        /\ stable = TrailingHidden(samples)
        /\ opres = "True" =>
             /\ Len(samples) >= reqStable
             /\ \A k \in (Len(samples) - reqStable + 1)..Len(samples) :
                  ~samples[k]
        /\ (reqStable = 2 /\ samples = <<TRUE, TRUE, FALSE>>) => opres # "True"

\* C9 witness: threshold 2, samples true, true, false, false: success is
\* reported with the fourth sample.
C9_Witness ==
    /\ op = "wait"
    /\ reqStable = 2
    /\ samples = <<TRUE, TRUE, FALSE, FALSE>>
    /\ opres = "True"

\* C10: wait_until_loader_hidden ends by returning True, the stable count
\* reached, or by returning False, the timeout elapsed and the count not
\* reached.
C10_ReturnsBool ==
    (op = "wait" /\ opc = "done") =>
        \/ opres = "True" /\ StableReached(stable, reqStable)
        \/ opres = "False" /\ ~StableReached(stable, reqStable)
                           /\ wdeadline = 0

Min(S) == CHOOSE m \in S : \A n \in S : m <= n

\* Two characters that differ at most in case.
SameIgnoringCase(a, b) ==
    \/ a = b
    \/ {a, b} = {"a", "A"}
    \/ {a, b} = {"b", "B"}

\* The selector occurs in the string, case-insensitively.
OccursIn(text, str) ==
    \E k \in 0..(Len(str) - Len(text)) :
        \A j \in 1..Len(text) : SameIgnoringCase(str[k + j], text[j])

\* The positions of the targets whose url or title contains the selector.
Hits ==
    {k \in 1..Len(targets) :
        \/ OccursIn(target_selector.text, targets[k].url)
        \/ OccursIn(target_selector.text, targets[k].title)}

PageTyped == {k \in 1..Len(targets) : targets[k].type = "page"}

HttpPages ==
    {k \in PageTyped :
        /\ targets[k].url # <<>>
        /\ targets[k].url[1] \in {"http://", "https://"}}

PickReturned == picked # NotPicked

C12_FirstMatchingPageTyped ==
    (PickReturned /\ target_selector.given /\ target_selector.text # <<>>) =>
        /\ (Hits \cap PageTyped) # {} => picked = Min(Hits \cap PageTyped)
        /\ ((Hits \cap PageTyped) = {} /\ Hits # {}) => picked = Min(Hits)
        /\ picked = LookupError <=> Hits = {}

\* C12: with a selector pick_target returns the first target of type page
\* with an http(s) url whose url or title contains the selector
\* case-insensitively; only with no such target, the first matching target
\* of the list; it raises LookupError exactly when no target matches.
C12_FirstMatchingHttpPage ==
    (PickReturned /\ target_selector.given /\ target_selector.text # <<>>) =>
        /\ (Hits \cap HttpPages) # {} => picked = Min(Hits \cap HttpPages)
        /\ ((Hits \cap HttpPages) = {} /\ Hits # {}) => picked = Min(Hits)
        /\ picked = LookupError <=> Hits = {}

\* C12 witness: the selector, in upper case, matched the second target, an
\* http(s) page, and the first target, not of type page, matched as well.
C12_Witness ==
    /\ picked = 2
    /\ target_selector = Selector(<<"A">>)
    /\ targets[1] = Target("other", <<"chrome://", "a">>, <<>>)
    /\ targets[2].url = <<"http://", "a">>

\* C20: a diag that ensure_cdp_chrome_running returns has ok = True only if
\* a liveness probe succeeded during that invocation, and has ok = True
\* exactly when its error is None.
C20_OkMeansProbed ==
    epc = "done" =>
        /\ diag.ok => probed
        /\ diag.ok <=> diag.error = "None"

\* C20 witness: the browser was launched, time passed in the loop, a probe
\* succeeded, and the diag returned has ok = True.
C20_Witness ==
    /\ epc = "done"
    /\ diag.ok
    /\ diag.launched
    /\ probed
    /\ edeadline < timeout_secs

\* C13: when an operation has returned or raised, the websocket it opened
\* is closed.
C13_ClosedOnExit == (op # "idle" /\ opc = "done") => ~wsOpen

\* C14: click_element ends its sequence of commands by returning True, or by
\* raising because the element was not found or because a remote command
\* failed.
C14_ClickReturnsTrue ==
    [][(op = "click" /\ opc = "calls" /\ opc' = "finally") =>
          \/ opres' = "True"
          \/ opres' = "ValueError" /\ data.val = "nonode"
          \/ outcome \in {"error", "timeout"} /\ opres' = ExcOf(outcome)]_vars

\* The pointer events sent on the websocket, in the order they were sent.
PointerEvents ==
    SelectSeq(sent, LAMBDA c : c.method = "Input.dispatchMouseEvent")

\* C15: the pointer events sent on a websocket are move, press, release, in
\* that order and again from the start, all at the point computed from the
\* content box, press and release with the left button.
C15_MovePressRelease ==
    op \in {"click", "dates"} =>
        \A k \in 1..Len(PointerEvents) :
            LET e == PointerEvents[k].params IN
            /\ e.arg = <<"mouseMoved", "mousePressed", "mouseReleased">>
                           [((k - 1) % 3) + 1]
            /\ e.point # NoPoint
            /\ e.point = PointerEvents[1].params.point
            /\ e.point = point
            /\ e.arg \in {"mousePressed", "mouseReleased"} =>
                   e.button = "left"

\* C15 witness: set_dates_and_run has sent the move, the press and the
\* release and returned True.
C15_Witness ==
    /\ op = "dates"
    /\ opres = "True"
    /\ Len(PointerEvents) = 3
    /\ PointerEvents[3].params.arg = "mouseReleased"

\* The positions in sent of the commands with method m.
SentWith(m) == {k \in 1..Len(sent) : sent[k].method = m}

\* C16: a selector query is sent only after DOM.getDocument returned on the
\* same websocket; a query that yields no node makes the operation raise
\* ValueError, and the query is then the last command the operation sent.
C16_NoNodeStopsOperation ==
    /\ [](op \in {"click", "dates"} =>
            \A k \in SentWith("DOM.querySelector") :
                \E j \in SentWith("DOM.getDocument") :
                    j < k /\ sent[j].id \in returned)
    /\ [][(op \in {"click", "dates"} /\ cpc = "done" /\ cpc' = "idle"
             /\ method = "DOM.querySelector" /\ outcome = "result"
             /\ data.val = "nonode") =>
            (opc' = "finally" /\ opres' = "ValueError")]_vars
    /\ [](op \in {"click", "dates"} /\ opres = "ValueError" =>
            /\ sent[Len(sent)].method = "DOM.querySelector"
            /\ sent[Len(sent)].id \in returned)

\* C16 witness: set_dates_and_run injected the first field, did not find
\* the second, raised ValueError and closed the websocket.
C16_Witness ==
    /\ op = "dates"
    /\ opc = "done"
    /\ opres = "ValueError"
    /\ Len(sent) = 8
    /\ sent[8].params.arg = "#txtToDate"

\* C17: DOM.resolveNode is sent right after the selector query of the same
\* field returned, Runtime.callFunctionOn right after the DOM.resolveNode of
\* the same field returned, and never otherwise.
C17_InjectionOrder ==
    op = "dates" =>
        /\ \A k \in SentWith("DOM.resolveNode") :
             /\ k - 1 \in SentWith("DOM.querySelector")
             /\ sent[k - 1].params.arg = sent[k].params.arg
             /\ sent[k - 1].id \in returned
        /\ \A k \in SentWith("Runtime.callFunctionOn") :
             /\ k - 1 \in SentWith("DOM.resolveNode")
             /\ sent[k - 1].params.arg = sent[k].params.arg
             /\ sent[k - 1].id \in returned

\* C17 witness: the value of the second field was assigned, and the call
\* returned.
C17_Witness ==
    /\ op = "dates"
    /\ Len(sent) >= 10
    /\ sent[10].method = "Runtime.callFunctionOn"
    /\ sent[10].params.arg = "#txtToDate"
    /\ sent[10].id \in returned

\* Four times the number Quarter gave.
TimesFour(q) == 4 * q[1] + q[2]

\* C18: x is the mean of elements 0, 2, 4, 6 of the content box and y the
\* mean of elements 1, 3, 5, 7; the corners (0,0), (10,0), (10,10), (0,10)
\* give (5,5); click_element and set_dates_and_run compute the same point.
C18_Centroid ==
    LET IsMean(p) ==
            /\ TimesFour(p[1]) = content[1] + content[3] + content[5] + content[7]
            /\ TimesFour(p[2]) = content[2] + content[4] + content[6] + content[8]
            /\ p[1][2] \in 0..3
            /\ p[2][2] \in 0..3
    IN /\ point # NoPoint => IsMean(point)
       /\ clickPoint # NoPoint => IsMean(clickPoint)
       /\ (point # NoPoint /\ clickPoint # NoPoint) => point = clickPoint
       /\ (point # NoPoint /\ content = <<0, 0, 10, 0, 10, 10, 0, 10>>) =>
              point = <<<<5, 0>>, <<5, 0>>>>

\* C18 witness: both computations were applied to the corners (0,0),
\* (10,0), (10,10), (0,10) and gave (5,5).
C18_Witness ==
    /\ content = <<0, 0, 10, 0, 10, 10, 0, 10>>
    /\ point = <<<<5, 0>>, <<5, 0>>>>
    /\ clickPoint = point

\* C19: a remote command that times out, or is answered with an error, ends
\* the operation that issued it with the exception of that failure.
C19_FailuresSurface ==
    [][(cpc = "done" /\ cpc' = "idle" /\ outcome \in {"error", "timeout"}) =>
          IF op = "ilv" THEN ilvRet' = ExcOf(outcome)
          ELSE opres' = ExcOf(outcome)]_vars

\* C22: _cdp_call raises TimeoutError only once its deadline has been
\* reached: whenever the call has ended by timeout, whether the loop
\* condition failed or a receive timed out, no budget is left.  A receive
\* waits for the whole remaining budget, so none times out with budget left.
C22_TimeoutOnlyAtDeadline ==
    (cpc = "done" /\ outcome = "timeout") => deadline = 0

\* A call has ended by timeout after it had read and dropped a notification.
C22_Witness ==
    /\ cpc = "done"
    /\ outcome = "timeout"
    /\ droppedNotes > 0
    /\ lastRead.kind = "note"

\* The commands of the open connection that the browser has not answered
\* and that the program has not given up by timeout.
Outstanding ==
    {k \in 1..Len(sent) : k > answered /\ sent[k].id \notin abandoned}

\* C23: on every connection at most one command is outstanding at a time: no
\* command is sent while an earlier command of the connection has neither
\* been answered nor been abandoned by timeout.
C23_OneOutstanding == wsOpen => Cardinality(Outstanding) <= 1

\* The scroll-into-view request of the running operation has just failed:
\* the call of set_dates_and_run raised, by error reply or by timeout; the
\* call of click_element, next after the selector query that found the
\* node, raises before anything is sent.
ScrollFails ==
    /\ opc = "calls"
    /\ cpc = "done"
    /\ cpc' = "idle"
    /\ \/ /\ op = "dates"
          /\ method = "DOM.scrollIntoViewIfNeeded"
          /\ outcome \in {"error", "timeout"}
       \/ /\ op = "click"
          /\ method = "DOM.querySelector"
          /\ outcome = "result"
          /\ NodeFound(data.val)

\* C24: scroll-into-view is best-effort: when it fails or times out, the
\* operation goes on with its calls, the request for box geometry next, and
\* does not end there.
C24_ScrollBestEffort ==
    [][ScrollFails => (opc' = "calls" /\ opres' = "none")]_vars

\* The value of field f was assigned: its Runtime.callFunctionOn was sent
\* and the call returned.
Injected(f) ==
    \E k \in SentWith("Runtime.callFunctionOn") :
        sent[k].params.arg = f /\ sent[k].id \in returned

\* C25: set_dates_and_run sends nothing for the end date before the
\* injection of the start date returned; it sends a pointer event, and it
\* returns True, only after both injections returned.  So with a field
\* missing or an injection failed there is no pointer event and no True.
C25_DatesBeforeRun ==
    op = "dates" =>
        /\ (\E k \in 1..Len(sent) : sent[k].params.arg = "#txtToDate") =>
               Injected("#txtFromDate")
        /\ (PointerEvents # <<>> \/ opres = "True") =>
               (Injected("#txtFromDate") /\ Injected("#txtToDate"))

\* C25 witness: both dates were injected and the first pointer event on the
\* run button has been sent.
C25_Witness ==
    /\ op = "dates"
    /\ Injected("#txtFromDate")
    /\ Injected("#txtToDate")
    /\ Len(PointerEvents) = 1

C21_SingleBrowser == Cardinality(procs) <= 1

\* C27: when the endpoint answers the first probe, ensure_cdp_chrome_running
\* ends no process, starts none, leaves the port as it is, and returns
\* ok = True, launched = False and killed empty.
C27_ReachableUntouched ==
    [][(epc = "probe" /\ epc' = "done") =>
          /\ procs' = procs
          /\ holder' = holder
          /\ diag'.ok
          /\ ~diag'.launched
          /\ diag'.killed = <<>>
          /\ diag'.error = "None"]_vars

\* C27 witness: a browser launched earlier answered the first probe of a
\* later invocation, which returned with its pid.
C27_Witness ==
    /\ epc = "done"
    /\ diag.ok
    /\ ~diag.launched
    /\ diag.killed = <<>>
    /\ diag.pid \in procs
    /\ holder \in procs

\* C28: with the first probe failed and the port in use, the invocation ends
\* only browsers that match the port or the profile, and only if
\* kill_if_unreachable is set; when a process that matches neither holds
\* the port, or matching browsers exist and kill_if_unreachable is not set,
\* it returns ok = False with an error and has killed and launched nothing.
C28_KillsOnlyOwn ==
    [][(epc = "port" /\ PortInUse) =>
          /\ procs' \subseteq procs
          /\ holder' # holder => holder \in procs
          /\ procs' # procs => kill_if_unreachable
          /\ (holder = OtherProcess \/ (procs # {} /\ ~kill_if_unreachable))
                => /\ epc' = "done"
                   /\ ~diag'.ok
                   /\ diag'.error # "None"
                   /\ ~diag'.launched
                   /\ diag'.killed = <<>>
                   /\ procs' = procs
                   /\ holder' = holder]_vars

\* C29: an exception of a browser operation in a cycle of the main loop of
\* run_bot never leaves the loop: it brings run_bot to its handler, which
\* kills the browser of diag and calls ensure_cdp_chrome_running, after
\* which the next cycle begins.
C29_FailureRecovers ==
    /\ [](bpc # "left")
    /\ [][(bpc = "ops" /\ bpc' # "ops") => bpc' \in {"top", "handler"}]_vars
    /\ [][(bpc = "handler" /\ bpc' # "handler") =>
            (bpc' = "relaunch" /\ epc' = "probe" /\ diag.pid \notin procs')]_vars
    /\ [][(bpc = "relaunch" /\ bpc' # "relaunch") => bpc' = "top"]_vars

\* C30: the retry loop of ensure_navigate is bounded: once ensure_navigate
\* has begun to test the address bar it comes to its end, by return or by
\* exception, also when the address bar never shows the target URL.
C30_EnsureNavigateEnds == (npc = "test") ~> (npc \in {"done", "idle"})

\* C31: for every list of targets, navigate_to_site without a selector
\* (through pick_target) and the helpers get_outer_html_from_diag,
\* click_element and set_dates_and_run choose the same target.
C31_SameTarget ==
    \A h \in Helpers :
        (~target_selector.given /\ picked # NotPicked
                                /\ helped[h] # NotPicked)
            => helped[h] = picked

\* C32: wait_until_loader_hidden counts a sample as not-visible only when
\* the evaluation returned a value whose visible field is false: a
\* Runtime.evaluate reply that carries no value does not raise the count of
\* stable samples.
C32_NoValueNotCounted ==
    [][(op = "wait" /\ opc = "sample" /\ ipc = "done" /\ ipc' = "idle"
            /\ ilvRet = "False" /\ val = "novalue")
        => stable' <= stable]_vars

\* C33: run_bot performs browser operations (login, navigation, HTML
\* fetch) only while the diag it holds has ok true, after the first
\* ensure_cdp_chrome_running and after every relaunch.
C33_OperatesOnlyWithOk == bpc \in {"login", "ops"} => diag.ok

\* The accounts whose current flag is set.
CurrentAccounts == {a \in AccountNames : accounts[a]}

\* C34: whenever no login_to_account is executing, exactly one entry of
\* accounts has current set, after any sequence of invocations; and an
\* invocation that ended with an exception has left every flag as it was
\* when the invocation was made.
C34_OneCurrent ==
    /\ LoginDepth = 0 => Cardinality(CurrentAccounts) = 1
    /\ (stack = <<>> /\ lres = "raised") => accounts = before

\* An invocation raised after an earlier one had switched the account.
C34_Witness ==
    /\ stack = <<>>
    /\ lres = "raised"
    /\ accounts # InitialAccounts

\* C35: login_to_account is never entered while an earlier activation of
\* it is in progress: its nesting depth is at most 1.
C35_NoReentry == LoginDepth <= 1

====
